---- MODULE Spec2Model ----
(***************************************************************************)
(* A model of the sqloxx persistence core: the nested-transaction manager  *)
(* of DatabaseConnection, the DatabaseTransaction scope, the IdentityMap,  *)
(* the PersistentObject state machine and the counted Handle.              *)
(*                                                                         *)
(* Sequential C++ code is modelled by operators that take a record holding *)
(* the part of the program state the code works on and return the record   *)
(* after the code has run; an exception is the field exc of the result.    *)
(* Every public operation is one action of the model.                      *)
(***************************************************************************)
EXTENDS Integers, Sequences, FiniteSets, TLC

(***************************************************************************)
(* Bounds.  The program's limits are those of int and of sqloxx::Id; the   *)
(* model scales them down so that the limit cases are reached.             *)
(***************************************************************************)
\* std::numeric_limits<Id>::max(), scaled: primary keys are 1..MaxId
MaxId == 2
\* DatabaseConnection::s_max_nesting (INT_MAX in the source), scaled
s_max_nesting == 2
\* std::numeric_limits<HandleCounter>::max(), scaled
HandleCounterMax == 4
\* the Handle variables of the client program
MaxHandles == 2
\* the DatabaseTransaction objects the client holds while it uses the map
MaxUserScopes == 1
\* the move assignments onto a bound Handle that the client makes
MaxLeaks == 1
\* the SQLStatement objects the client has alive at a time
MaxStatements == 2
\* DatabaseConnection::m_cache_capacity (300 by default), scaled
m_cache_capacity == 2
\* the TableIterator variables the client has alive at a time
MaxIterators == 2
\* the prepared statements the client has alive at a time
MaxCursors == 2
\* the result rows of the query of a TableIterator
MaxRows == 3
\* the greatest cache key of the identity map whose keys alone are modelled
MaxCacheKey == 4

NULL == 0
Ids == 1 .. MaxId
Vals == {0, 1}
\* live DatabaseTransaction objects: enough to attempt one begin at the limit
MaxScopes == s_max_nesting + 1
\* the sets of commands, counted from the operation's first, that may fail
FailSets(n) == SUBSET (1 .. n)

VARIABLES
    m_transaction_nesting_level, \* DatabaseConnection::m_transaction_nesting_level
    db,             \* the engine's table: rows (id -> x or NULL row) and sqlite_sequence
    savepoints,     \* the engine's open transaction frames, outermost first
    scopes,         \* the live DatabaseTransaction objects, oldest first
    pc,             \* "run", "terminated" after std::terminate() or a failed
                    \* assertion, "hung" in a loop that does not end
    last,           \* the operation that ran last: name, arguments, exception, commands
    tracing,        \* whether operations on the identity map are recorded in last
    wstate,         \* history: what became of the latest write of each key
    tags,           \* history: the still active scopes enclosing that write
    proper,         \* history: scopes resolved innermost first, no engine failure
    m_cache_key_map,    \* IdentityMap::m_cache_key_map: cache key -> object
    m_id_map,           \* IdentityMap::m_id_map: id -> object
    m_last_cache_key,   \* IdentityMap::m_last_cache_key
    m_is_caching,       \* IdentityMap::m_is_caching
    objects,            \* the PersistentObject at each address
    handles,            \* Handle::m_pointer of each Handle variable
    m_statement_cache,  \* DatabaseConnection::m_statement_cache: text -> wrapper
    wrappers,           \* the SQLStatementImpl at each address
    statements,         \* SQLStatement::m_sql_statement of each SQLStatement
    cast_handles,       \* the Handle<ExampleB> and Handle<ExampleC> variables
    dynamic_type,       \* the class of the object at each address
    cursors,            \* the prepared statements (sqlite3_stmt) of the client
    iterators           \* the TableIterator variables

connVars == <<m_transaction_nesting_level, db, savepoints>>
ghostVars == <<wstate, tags, proper>>
mapVars == <<m_cache_key_map, m_id_map, m_last_cache_key, m_is_caching,
             objects, handles>>
stmtVars == <<m_statement_cache, wrappers, statements>>
castVars == <<cast_handles, dynamic_type>>
iterVars == <<cursors, iterators>>
vars == <<m_transaction_nesting_level, db, savepoints, scopes, pc, last,
          tracing, wstate, tags, proper, m_cache_key_map, m_id_map, m_last_cache_key,
          m_is_caching, objects, handles, m_statement_cache, wrappers, statements,
          cast_handles, dynamic_type, cursors, iterators>>

\* the SQL texts the client makes statements of
Texts == {"select", "insert", "delete"}
StatementSlots == 1 .. MaxStatements
\* a wrapper is alive while the cache or a SQLStatement holds it
WrapperAddresses == 1 .. (MaxStatements + m_cache_capacity)
NoWrapper ==
    [alive |-> FALSE, text |-> "", m_is_locked |-> FALSE, stepped |-> FALSE,
     bound |-> FALSE]

NoRow == -1
EmptyDb == [rows |-> [k \in Ids |-> NoRow], seq |-> 0]

\* insert into a table whose key is not autoincrementing: the row gets the
\* least key that no row has
InsertRowReusing(d, v) ==
    LET key == CHOOSE k \in Ids :
                   /\ d.rows[k] = NoRow
                   /\ \A j \in Ids : d.rows[j] = NoRow => k <= j
    IN  [rows |-> [d.rows EXCEPT ![key] = v],
         seq |-> IF key > d.seq THEN key ELSE d.seq]

\* insert into <root table>(x) values(v)
\* the table's key is autoincrementing: the row gets sqlite_sequence + 1
InsertRow(d, v) ==
    [rows |-> [d.rows EXCEPT ![d.seq + 1] = v], seq |-> d.seq + 1]

RowPresent(k) == db.rows[k] # NoRow

\* CacheKey is a typedef of Id
CacheKeys == 1 .. MaxId
\* An object's address.  The object made for a cache key is placed at the
\* address of that number; NoDanglingObject checks that the address is free.
Addresses == CacheKeys
HandleSlots == 1 .. MaxHandles
\* the classes of tests/example.hpp that share the root ExampleB
Types == {"ExampleB", "ExampleC"}
\* Handle variables of either class: enough of them to bring one object's
\* handle counter to its maximum
CastSlots == 1 .. (HandleCounterMax + 1)
\* a null Handle
NoHandle == [m_pointer |-> NULL, T |-> "none"]
CursorSlots == 1 .. MaxCursors
IteratorSlots == 1 .. MaxIterators
\* the fundamental datatypes of a value in a result row
ValueTypes == {"SQLITE_INTEGER", "SQLITE_FLOAT", "SQLITE_TEXT", "SQLITE_NULL"}
\* a prepared statement: the number of columns of its result set (0 when it
\* returns no data), the rows its execution yields, the row it is at (0: it
\* is at no row), whether a parameter is bound, and whether a failure has
\* left it not to be used again
NoCursor ==
    [alive |-> FALSE, columns |-> 0, rows |-> <<>>, row |-> 0,
     bound |-> FALSE, failed |-> FALSE]
\* no TableIterator variable
NoIterator == [alive |-> FALSE, m_impl |-> NULL, m_maybe_object |-> NULL]
\* the memory at an address that holds no object
NoObject ==
    [alive |-> FALSE, m_id |-> NULL, m_cache_key |-> NULL,
     m_loading_status |-> "ghost", m_handle_counter |-> 0, m_x |-> 0]

(***************************************************************************)
(* The engine.  Commands are the SQL texts of the unchecked_ functions.    *)
(* A frame of savepoints is the table as it was when the frame was opened. *)
(* All savepoints are named sp, so release and rollback-to address the     *)
(* most recent one, which is the top frame.                                *)
(***************************************************************************)
TopIsSavepoint(c) ==
    c.sp # <<>> /\ c.sp[Len(c.sp)].kind = "savepoint"

EngineAccepts(c, cmd) ==
    CASE cmd = "begin" -> c.sp = <<>>
      [] cmd = "end" -> c.sp # <<>>
      [] cmd = "rollback" -> c.sp # <<>>
      [] cmd = "savepoint sp" -> TRUE
      [] cmd = "release sp" -> TopIsSavepoint(c)
      [] cmd = "rollback to savepoint sp" -> TopIsSavepoint(c)

EngineApply(c, cmd) ==
    CASE cmd = "begin" ->
            [c EXCEPT !.sp = <<[kind |-> "begin", snap |-> c.db]>>]
      [] cmd = "end" ->
            [c EXCEPT !.sp = <<>>]
      [] cmd = "rollback" ->
            [c EXCEPT !.db = c.sp[1].snap, !.sp = <<>>]
      [] cmd = "savepoint sp" ->
            [c EXCEPT !.sp = Append(@, [kind |-> "savepoint", snap |-> c.db])]
      [] cmd = "release sp" ->
            [c EXCEPT !.sp = SubSeq(@, 1, Len(@) - 1)]
      [] cmd = "rollback to savepoint sp" ->
            [c EXCEPT !.db = c.sp[Len(c.sp)].snap]

\* SQLStatement statement(*this, cmd); statement.step();
\* the n-th command of the operation fails when n is in the failure set F
Exec(c, cmd) ==
    LET k == c.n + 1
        c1 == [c EXCEPT !.n = k, !.cmds = Append(@, cmd)]
    IN  IF k \in c.F
        THEN [c1 EXCEPT !.exc = "SQLiteException", !.inj = TRUE]
        ELSE IF ~EngineAccepts(c, cmd)
        THEN [c1 EXCEPT !.exc = "SQLiteException"]
        ELSE EngineApply(c1, cmd)

unchecked_begin_transaction(c) == Exec(c, "begin")
unchecked_end_transaction(c) == Exec(c, "end")
unchecked_set_savepoint(c) == Exec(c, "savepoint sp")
unchecked_release_savepoint(c) == Exec(c, "release sp")
unchecked_rollback_transaction(c) == Exec(c, "rollback")
unchecked_rollback_to_savepoint(c) == Exec(c, "rollback to savepoint sp")

Ok(c) == c.exc = "none"
Throw(c, e) == [c EXCEPT !.exc = e]

\* the connection as an operation finds it; F is the operation's failure set
Call(F) ==
    [level |-> m_transaction_nesting_level, db |-> db, sp |-> savepoints,
     n |-> 0, F |-> F, cmds |-> <<>>, exc |-> "none", inj |-> FALSE,
     m_cache_key_map |-> m_cache_key_map, m_id_map |-> m_id_map,
     m_last_cache_key |-> m_last_cache_key, m_is_caching |-> m_is_caching,
     objects |-> objects, born |-> FALSE, hung |-> FALSE]

(***************************************************************************)
(* DatabaseConnection                                                      *)
(***************************************************************************)
\* begin_transaction without the case for the nesting limit
begin_transaction_unbounded(c) ==
    LET c1 == IF c.level = 0 THEN unchecked_begin_transaction(c)
              ELSE unchecked_set_savepoint(c)
    IN  IF Ok(c1) THEN [c1 EXCEPT !.level = @ + 1] ELSE c1

begin_transaction(c) ==
    IF c.level = 0
    THEN LET c1 == unchecked_begin_transaction(c)
         IN  IF Ok(c1) THEN [c1 EXCEPT !.level = @ + 1] ELSE c1
    ELSE IF c.level = s_max_nesting
    THEN Throw(c, "TransactionNestingException")
    ELSE LET c1 == unchecked_set_savepoint(c)
         IN  IF Ok(c1) THEN [c1 EXCEPT !.level = @ + 1] ELSE c1

\* end_transaction that commits at every level
end_transaction_commits(c) ==
    IF c.level = 0
    THEN Throw(c, "TransactionNestingException")
    ELSE LET c1 == unchecked_end_transaction(c)
         IN  IF Ok(c1) THEN [c1 EXCEPT !.level = @ - 1] ELSE c1

end_transaction(c) ==
    IF c.level = 1
    THEN LET c1 == unchecked_end_transaction(c)
         IN  IF Ok(c1) THEN [c1 EXCEPT !.level = @ - 1] ELSE c1
    ELSE IF c.level = 0
    THEN Throw(c, "TransactionNestingException")
    ELSE LET c1 == unchecked_release_savepoint(c)
         IN  IF Ok(c1) THEN [c1 EXCEPT !.level = @ - 1] ELSE c1

\* cancel_transaction that releases the savepoint without rolling back to it
cancel_transaction_release_only(c) ==
    IF c.level = 1
    THEN LET c1 == unchecked_rollback_transaction(c)
         IN  IF Ok(c1) THEN [c1 EXCEPT !.level = @ - 1] ELSE c1
    ELSE IF c.level = 0
    THEN Throw(c, "TransactionNestingException")
    ELSE LET c1 == unchecked_release_savepoint(c)
         IN  IF Ok(c1) THEN [c1 EXCEPT !.level = @ - 1] ELSE c1

cancel_transaction(c) ==
    IF c.level = 1
    THEN LET c1 == unchecked_rollback_transaction(c)
         IN  IF Ok(c1) THEN [c1 EXCEPT !.level = @ - 1] ELSE c1
    ELSE IF c.level = 0
    THEN Throw(c, "TransactionNestingException")
    ELSE LET c1 == unchecked_rollback_to_savepoint(c)
             c2 == IF Ok(c1) THEN unchecked_release_savepoint(c1) ELSE c1
         IN  IF Ok(c2) THEN [c2 EXCEPT !.level = @ - 1] ELSE c2

(***************************************************************************)
(* DatabaseTransaction.  Each operator returns the connection and the      *)
(* scope's m_is_active afterwards.                                         *)
(***************************************************************************)
\* a constructor that sets m_is_active before begin_transaction returns and
\* swallows its exception
DatabaseTransactionActiveAtOnce(c) ==
    LET c1 == begin_transaction(c)
    IN  [c |-> [c1 EXCEPT !.exc = "none"], m_is_active |-> TRUE]

\* the constructor; when it throws no scope object comes to exist
DatabaseTransaction(c) ==
    LET c1 == begin_transaction(c)
    IN  [c |-> c1, m_is_active |-> Ok(c1)]

\* commit that forgets to clear m_is_active
commit_stays_active(c, m_is_active) ==
    IF m_is_active
    THEN LET c1 == end_transaction(c)
         IN  IF Ok(c1)
             THEN [c |-> c1, m_is_active |-> TRUE]
             ELSE [c |-> Throw(c1, "UnresolvedTransactionException"),
                   m_is_active |-> TRUE]
    ELSE [c |-> Throw(c, "TransactionNestingException"), m_is_active |-> FALSE]

commit(c, m_is_active) ==
    IF m_is_active
    THEN LET c1 == end_transaction(c)
         IN  IF Ok(c1)
             THEN [c |-> c1, m_is_active |-> FALSE]
             ELSE [c |-> Throw(c1, "UnresolvedTransactionException"),
                   m_is_active |-> TRUE]
    ELSE [c |-> Throw(c, "TransactionNestingException"), m_is_active |-> FALSE]

\* cancel that gives the scope up when the engine fails
cancel_gives_up(c, m_is_active) ==
    IF m_is_active
    THEN [c |-> IF Ok(cancel_transaction(c)) THEN cancel_transaction(c)
                ELSE Throw(cancel_transaction(c),
                           "UnresolvedTransactionException"),
          m_is_active |-> FALSE]
    ELSE [c |-> Throw(c, "TransactionNestingException"), m_is_active |-> FALSE]

cancel(c, m_is_active) ==
    IF m_is_active
    THEN LET c1 == cancel_transaction(c)
         IN  IF Ok(c1)
             THEN [c |-> c1, m_is_active |-> FALSE]
             ELSE [c |-> Throw(c1, "UnresolvedTransactionException"),
                   m_is_active |-> TRUE]
    ELSE [c |-> Throw(c, "TransactionNestingException"), m_is_active |-> FALSE]

\* the destructor; exc "terminate" stands for the call of std::terminate()
DatabaseTransactionDtor(c, m_is_active) ==
    IF m_is_active
    THEN LET c1 == cancel_transaction(c)
         IN  IF Ok(c1)
             THEN [c |-> c1, m_is_active |-> FALSE]
             ELSE [c |-> Throw(c1, "terminate"), m_is_active |-> TRUE]
    ELSE [c |-> c, m_is_active |-> FALSE]

(***************************************************************************)
(* PersistentObject: the handle counter and the predicates on one object   *)
(***************************************************************************)
has_id(ob) == ob.m_id # NULL
is_orphaned(ob) == ob.m_handle_counter = 0
\* has_high_handle_count with the maximum for its limit
has_highest_handle_count(ob) == ob.m_handle_counter >= HandleCounterMax

has_high_handle_count(ob) == ob.m_handle_counter >= HandleCounterMax - 2

\* the object a constructor of the derived class makes: a ghost, no handles
NewObject(id) ==
    [alive |-> TRUE, m_id |-> id, m_cache_key |-> NULL,
     m_loading_status |-> "ghost", m_handle_counter |-> 0, m_x |-> 0]

(***************************************************************************)
(* IdentityMap.  The maps hold shared pointers: an object is destroyed     *)
(* when the last map entry for it is erased.                               *)
(***************************************************************************)
Held(s, a) ==
    \/ \E k \in CacheKeys : s.m_cache_key_map[k] = a
    \/ \E k \in Ids : s.m_id_map[k] = a

\* the shared pointers' deleter, run after entries were erased
Reclaim(s) ==
    [s EXCEPT !.objects = [a \in Addresses |->
        IF Held(s, a) THEN s.objects[a] ELSE NoObject]]

KeysInUse(s) ==
    {k \in DOMAIN s.m_cache_key_map : s.m_cache_key_map[k] # NULL}

\* std::numeric_limits<CacheKey>::max(): the map has a slot for every key
maximum(s) == Cardinality(DOMAIN s.m_cache_key_map)

Min(S) == CHOOSE x \in S : \A y \in S : x <= y

\* ++it; if (it == endpoint) it = m_cache_key_map.begin();
NextInUse(s, k) ==
    LET later == {j \in KeysInUse(s) : j > k}
    IN  IF later = {} THEN Min(KeysInUse(s)) ELSE Min(later)

\* while (ret == it->first) { ... }
RECURSIVE ScanForUnusedKey(_, _, _)
ScanForUnusedKey(s, ret, it) ==
    IF ret = it
    THEN ScanForUnusedKey(s, IF ret = maximum(s) THEN 1 ELSE ret + 1,
                          NextInUse(s, it))
    ELSE ret

\* provide_cache_key that returns the least key that is not in use
provide_least_unused_key(s) ==
    LET sz == Cardinality(KeysInUse(s))
    IN  IF sz = 0
        THEN [s |-> [s EXCEPT !.m_last_cache_key = 1], key |-> 1]
        ELSE IF sz = maximum(s)
        THEN [s |-> Throw(s, "OverflowException"), key |-> NULL]
        ELSE LET ret == Min(DOMAIN s.m_cache_key_map \ KeysInUse(s))
             IN  [s |-> [s EXCEPT !.m_last_cache_key = ret], key |-> ret]

provide_cache_key(s) ==
    LET sz == Cardinality(KeysInUse(s))
    IN  IF sz = 0
        THEN [s |-> [s EXCEPT !.m_last_cache_key = 1], key |-> 1]
        ELSE IF sz = maximum(s)
        THEN [s |-> Throw(s, "OverflowException"), key |-> NULL]
        ELSE IF s.m_last_cache_key \notin KeysInUse(s)
        THEN [s |-> s, key |-> s.m_last_cache_key]
        ELSE LET ret == ScanForUnusedKey(s, s.m_last_cache_key,
                                         s.m_last_cache_key)
             IN  [s |-> [s EXCEPT !.m_last_cache_key = ret], key |-> ret]

\* m_cache_key_map.insert(...) of a new object and set_cache_key
InsertNew(s, key, id) ==
    [s EXCEPT !.m_cache_key_map[key] = key,
              !.m_id_map = IF id = NULL THEN @ ELSE [@ EXCEPT ![id] = key],
              !.objects[key] = [NewObject(id) EXCEPT !.m_cache_key = key],
              !.born = TRUE]

\* provide_pointer(): a new object without id
provide_pointer(s) ==
    LET r == provide_cache_key(s)
    IN  IF Ok(r.s)
        THEN [s |-> InsertNew(r.s, r.key, NULL), ptr |-> r.key]
        ELSE [s |-> r.s, ptr |-> NULL]

unchecked_provide_pointer(s, p_id) ==
    IF s.m_id_map[p_id] = NULL
    THEN LET r == provide_cache_key(s)
         IN  IF Ok(r.s)
             THEN [s |-> InsertNew(r.s, r.key, p_id), ptr |-> r.key]
             ELSE [s |-> r.s, ptr |-> NULL]
    ELSE IF has_high_handle_count(s.objects[s.m_id_map[p_id]])
    THEN [s |-> Throw(s, "OverflowException"), ptr |-> NULL]
    ELSE [s |-> s, ptr |-> s.m_id_map[p_id]]

\* exists that takes an entry of by_id for a record in the database
exists_or_cached(s, p_id) ==
    s.db.rows[p_id] # NoRow \/ s.m_id_map[p_id] # NULL

\* PersistentObject::exists: select * from <table> where <key> = :p
exists(s, p_id) == s.db.rows[p_id] # NoRow

\* unchecked_provide_pointer that makes a new object for every request
provide_pointer_always_new(s, p_id) ==
    IF ~exists(s, p_id)
    THEN [s |-> Throw(s, "BadIdentifier"), ptr |-> NULL]
    ELSE LET r == provide_cache_key(s)
         IN  IF Ok(r.s)
             THEN [s |-> InsertNew(r.s, r.key, p_id), ptr |-> r.key]
             ELSE [s |-> r.s, ptr |-> NULL]

provide_pointer_by_id(s, p_id) ==
    IF ~exists(s, p_id)
    THEN [s |-> Throw(s, "BadIdentifier"), ptr |-> NULL]
    ELSE unchecked_provide_pointer(s, p_id)

\* a failed JEWEL_ASSERT ends the program
AssertThat(cond, s) == IF cond THEN s ELSE Throw(s, "assert")

\* partially_uncache_object that erases the entry of by_cache_key as well
wholly_uncache_object(s, p_cache_key) ==
    LET record == s.m_cache_key_map[p_cache_key]
    IN  IF record = NULL THEN Throw(s, "assert")
        ELSE IF has_id(s.objects[record])
        THEN LET id == s.objects[record].m_id
             IN  AssertThat(s.m_id_map[id] # NULL,
                            Reclaim([s EXCEPT
                                       !.m_id_map[id] = NULL,
                                       !.m_cache_key_map[p_cache_key] = NULL]))
        ELSE s

partially_uncache_object(s, p_cache_key) ==
    LET record == s.m_cache_key_map[p_cache_key]
    IN  IF record = NULL THEN Throw(s, "assert")
        ELSE IF has_id(s.objects[record])
        THEN LET id == s.objects[record].m_id
             IN  AssertThat(s.m_id_map[id] # NULL,
                            Reclaim([s EXCEPT !.m_id_map[id] = NULL]))
        ELSE s

uncache_object(s, p_cache_key) ==
    LET s1 == partially_uncache_object(s, p_cache_key)
    IN  IF Ok(s1)
        THEN Reclaim([s1 EXCEPT !.m_cache_key_map[p_cache_key] = NULL])
        ELSE s1

\* register_id that lets the object registered before keep its id
register_id_keeps_old_id(s, p_cache_key, p_id) ==
    LET finder == s.m_cache_key_map[p_cache_key]
    IN  IF finder = NULL THEN Throw(s, "assert")
        ELSE [s EXCEPT !.m_id_map[p_id] = finder]

register_id(s, p_cache_key, p_id) ==
    LET finder == s.m_cache_key_map[p_cache_key]
    IN  IF finder = NULL THEN Throw(s, "assert")
        ELSE IF s.m_id_map[p_id] = NULL
        THEN [s EXCEPT !.m_id_map[p_id] = finder]
        ELSE LET old_obj == s.m_id_map[p_id]
                 s1 == partially_uncache_object(s,
                           s.objects[old_obj].m_cache_key)
                 s2 == [s1 EXCEPT !.objects[old_obj].m_id =
                           IF s1.objects[old_obj].alive THEN NULL ELSE @]
             IN  IF ~Ok(s1) THEN s1
                 ELSE AssertThat(s2.m_id_map[p_id] = NULL,
                                 [s2 EXCEPT !.m_id_map[p_id] = finder])

\* deregister_id that erases nothing
deregister_nothing(s, p_id) ==
    AssertThat(s.m_id_map[p_id] # NULL, s)

deregister_id(s, p_id) ==
    AssertThat(s.m_id_map[p_id] # NULL,
               Reclaim([s EXCEPT !.m_id_map[p_id] = NULL]))

notify_nil_handles(s, p_cache_key) ==
    LET it == s.m_cache_key_map[p_cache_key]
    IN  IF it = NULL THEN Throw(s, "assert")
        ELSE IF ~has_id(s.objects[it]) \/ ~s.m_is_caching
        THEN uncache_object(s, p_cache_key)
        ELSE s

enable_caching(s) == [s EXCEPT !.m_is_caching = TRUE]

\* it = m_cache_key_map.begin() and ++it; NULL stands for end()
FirstInUse(s) == IF KeysInUse(s) = {} THEN NULL ELSE Min(KeysInUse(s))
Successor(s, k) ==
    LET later == {j \in KeysInUse(s) : j > k}
    IN  IF later = {} THEN NULL ELSE Min(later)

\* while (it != end) { if (is_orphaned(*it->second)) { ... } }
\* the iterator advances only in the branch of the orphaned object, so the
\* loop stays for ever at the first object that is not orphaned
RECURSIVE disable_caching_loop(_, _)
disable_caching_loop(s, it) ==
    IF it = NULL THEN s
    ELSE LET record == s.m_cache_key_map[it]
         IN  IF is_orphaned(s.objects[record])
             THEN LET id == s.objects[record].m_id
                      s1 == IF has_id(s.objects[record])
                            THEN AssertThat(s.m_id_map[id] # NULL,
                                     [s EXCEPT !.m_id_map[id] = NULL])
                            ELSE s
                      s2 == Reclaim([s1 EXCEPT !.m_cache_key_map[it] = NULL])
                  IN  IF Ok(s1) THEN disable_caching_loop(s2, Successor(s, it))
                      ELSE s1
             ELSE [s EXCEPT !.hung = TRUE]

disable_caching(s) ==
    IF s.m_is_caching
    THEN LET s1 == disable_caching_loop(s, FirstInUse(s))
         IN  IF Ok(s1) /\ ~s1.hung THEN [s1 EXCEPT !.m_is_caching = FALSE]
             ELSE s1
    ELSE s

(***************************************************************************)
(* PersistentObject                                                        *)
(***************************************************************************)
increment_handle_counter(s, a) ==
    IF s.objects[a].m_handle_counter = HandleCounterMax
    THEN Throw(s, "OverflowException")
    ELSE [s EXCEPT !.objects[a].m_handle_counter = @ + 1]

decrement_handle_counter(s, a) ==
    IF s.objects[a].m_handle_counter = 1
    THEN LET s1 == [s EXCEPT !.objects[a].m_handle_counter = 0]
         IN  IF s1.objects[a].m_cache_key # NULL
             THEN notify_nil_handles(s1, s1.objects[a].m_cache_key)
             ELSE s1
    ELSE IF s.objects[a].m_handle_counter = 0
    THEN s
    ELSE [s EXCEPT !.objects[a].m_handle_counter = @ - 1]

ghostify(s, a) == [s EXCEPT !.objects[a].m_loading_status = "ghost"]

\* throw; after the handler's own calls: their exception, if any, replaces e
Rethrow(s, e) == IF Ok(s) THEN Throw(s, e) ELSE s

\* the scope, still active after its cancel() threw, is destroyed as the
\* stack unwinds
CancelFailed(r) ==
    Rethrow(DatabaseTransactionDtor([r.c EXCEPT !.exc = "none"], TRUE).c,
            "UnresolvedTransactionException")

\* transaction.cancel(); throw;  r is what cancel() returned
CancelThenRethrow(r, e) ==
    IF Ok(r.c) THEN Throw(r.c, e) ELSE CancelFailed(r)

\* the handler without transaction.cancel()
rethrow_without_cancel(s, e) == Throw(s, e)

\* catch (std::exception&) { ...; transaction.cancel(); throw; }
\* s is the state when the handler reaches cancel(), e the exception caught
CancelAndRethrow(s, e) ==
    CancelThenRethrow(cancel([s EXCEPT !.exc = "none"], TRUE), e)

\* the try block without transaction.commit()
LeftUncommitted(s) == s

\* transaction.commit(); reached when nothing was thrown before it
CommitIfOk(s) == IF Ok(s) THEN commit(s, TRUE).c ELSE s

\* The derived class of the tests (ExampleA), with the one column x.
\* failing names the do_ function in which the engine fails, or is "none".
\* do_load: its select statement is entered in the commands of the operation
do_load(s, a, failing) ==
    IF failing = "do_load"
    THEN [s EXCEPT !.cmds = Append(@, "select"), !.exc = "SQLiteException"]
    ELSE IF s.db.rows[s.objects[a].m_id] = NoRow
    THEN [s EXCEPT !.cmds = Append(@, "select"),
                   !.exc = "NoResultRowException"]
    ELSE [s EXCEPT !.cmds = Append(@, "select"),
                   !.objects[a].m_x = s.db.rows[s.objects[a].m_id]]

\* do_save_existing that inserts the row when the table has none for the id
do_save_existing_or_insert(s, a, failing) ==
    IF failing = "do_save_existing" THEN Throw(s, "SQLiteException")
    ELSE [s EXCEPT !.db.rows[s.objects[a].m_id] = s.objects[a].m_x]

do_save_existing(s, a, failing) ==
    IF failing = "do_save_existing" THEN Throw(s, "SQLiteException")
    ELSE IF s.db.rows[s.objects[a].m_id] = NoRow THEN s
    ELSE [s EXCEPT !.db.rows[s.objects[a].m_id] = s.objects[a].m_x]

\* do_save_new that binds no value: the row gets the column's default
do_save_new_unbound(s, a, failing) ==
    IF failing = "do_save_new" \/ s.db.seq >= MaxId
    THEN Throw(s, "SQLiteException")
    ELSE [s EXCEPT !.db = InsertRow(s.db, 0)]

do_save_new(s, a, failing) ==
    IF failing = "do_save_new" \/ s.db.seq >= MaxId
    THEN Throw(s, "SQLiteException")
    ELSE [s EXCEPT !.db = InsertRow(s.db, s.objects[a].m_x)]

do_remove(s, a, failing) ==
    IF failing = "do_remove" THEN Throw(s, "SQLiteException")
    ELSE [s EXCEPT !.db.rows[s.objects[a].m_id] = NoRow]

\* one more than the greatest key ever assigned in the table
next_auto_key(s) ==
    IF s.db.seq >= MaxId
    THEN [s |-> Throw(s, "TableSizeException"), key |-> NULL]
    ELSE [s |-> s, key |-> s.db.seq + 1]

\* the handler without ghostify() and without transaction.cancel()
loaded_or_rethrown(s, a) ==
    IF Ok(s) THEN [s EXCEPT !.objects[a].m_loading_status = "loaded"] ELSE s

\* the end of the try block of load() and of save(), or the handler
\* catch (std::exception&) { ghostify(); transaction.cancel(); throw; }
LoadedOrGhostified(s, a) ==
    IF Ok(s)
    THEN [s EXCEPT !.objects[a].m_loading_status = "loaded"]
    ELSE CancelAndRethrow(ghostify(s, a), s.exc)

\* load() that sets m_loading_status = loading before it constructs its
\* DatabaseTransaction, t
load_try_marked_first(t, a, failing) ==
    IF ~Ok(t.c) THEN [t.c EXCEPT !.objects[a].m_loading_status = "loading"]
    ELSE LoadedOrGhostified(
             CommitIfOk(do_load(
                 [t.c EXCEPT !.objects[a].m_loading_status = "loading"],
                 a, failing)),
             a)

\* load() from the construction of its DatabaseTransaction, t
load_try(t, a, failing) ==
    IF ~Ok(t.c) THEN t.c
    ELSE LoadedOrGhostified(
             CommitIfOk(do_load(
                 [t.c EXCEPT !.objects[a].m_loading_status = "loading"],
                 a, failing)),
             a)

\* load() that does not look at the loading status
load_whatever_the_status(s, a, failing) ==
    IF has_id(s.objects[a])
    THEN load_try(DatabaseTransaction(s), a, failing)
    ELSE s

load(s, a, failing) ==
    IF s.objects[a].m_loading_status = "loading"
    THEN [s EXCEPT !.hung = TRUE]
    ELSE IF s.objects[a].m_loading_status = "ghost" /\ has_id(s.objects[a])
    THEN load_try(DatabaseTransaction(s), a, failing)
    ELSE s

\* save() of an object with id from the construction of its
\* DatabaseTransaction, t
save_existing_try(t, a, failing) ==
    IF ~Ok(t.c) THEN t.c
    ELSE LoadedOrGhostified(CommitIfOk(do_save_existing(t.c, a, failing)), a)

\* save() of an object with id after its call of load()
save_existing_loaded(s, a, failing) ==
    IF ~Ok(s) \/ s.hung THEN s
    ELSE save_existing_try(DatabaseTransaction(s), a, failing)

\* the branch of save() for an object that has an id, without load()
save_existing_as_it_is(s, a, failing) ==
    save_existing_loaded(s, a, failing)

\* the branch of save() for an object that has an id
save_existing(s, a, failing) ==
    save_existing_loaded(load(s, a, failing), a, failing)

\* IdentityMap::register_id, reached when do_save_new() did not throw
RegisterIfOk(s, a, allocated_id) ==
    IF Ok(s)
    THEN register_id(s, s.objects[a].m_cache_key, allocated_id)
    ELSE s

\* the handler around transaction.commit() without deregister_id
rethrow_without_deregister(s, allocated_id) == s

\* catch (std::exception&) { deregister_id(allocated_id); throw; } around
\* transaction.commit(); s is the state after commit()
DeregisterIfThrown(s, allocated_id) ==
    IF Ok(s) THEN s
    ELSE Rethrow(deregister_id([s EXCEPT !.exc = "none"], allocated_id), s.exc)

\* transaction.commit(), reached when register_id did not throw
CommitRegistered(s, allocated_id) ==
    IF Ok(s) THEN DeregisterIfThrown(commit(s, TRUE).c, allocated_id) ELSE s

\* the end of the try block of save() for a new object: set_id and
\* m_loading_status = loaded; or the handler
\* catch (std::exception&) { clear_id(); transaction.cancel(); throw; }
SavedOrCleared(s, a, allocated_id) ==
    IF Ok(s)
    THEN [s EXCEPT !.objects[a].m_id = allocated_id,
                   !.objects[a].m_loading_status = "loaded"]
    ELSE IF s.exc = "assert" THEN s
    ELSE CancelAndRethrow([s EXCEPT !.objects[a].m_id = NULL], s.exc)

\* save() of a new object from the construction of its DatabaseTransaction, t
save_new_try(t, a, failing, allocated_id) ==
    IF ~Ok(t.c) THEN t.c
    ELSE SavedOrCleared(
             CommitRegistered(
                 RegisterIfOk(do_save_new(t.c, a, failing), a, allocated_id),
                 allocated_id),
             a, allocated_id)

\* save() of a new object after prospective_key(), which returned p
save_new_keyed(p, a, failing) ==
    IF ~Ok(p.s) THEN p.s
    ELSE save_new_try(DatabaseTransaction(p.s), a, failing, p.key)

\* the branch of save() for an object that has no id
save_new(s, a, failing) == save_new_keyed(next_auto_key(s), a, failing)

\* save() that does not enter the new id in by_id
save_without_registration(s, a, failing) ==
    IF s.objects[a].m_cache_key = NULL THEN Throw(s, "assert")
    ELSE IF has_id(s.objects[a]) THEN save_existing(s, a, failing)
    ELSE LET s1 == save_new(s, a, failing)
         IN  IF Ok(s1) THEN [s1 EXCEPT !.m_id_map[s1.objects[a].m_id] = NULL]
             ELSE s1

save(s, a, failing) ==
    IF s.objects[a].m_cache_key = NULL THEN Throw(s, "assert")
    ELSE IF has_id(s.objects[a]) THEN save_existing(s, a, failing)
    ELSE save_new(s, a, failing)

\* remove() without jewel::clear(m_id)
id_left_set(s, a) == s

\* clear_id(), reached when partially_uncache_object did not fail
ClearIdIfOk(s, a) ==
    IF Ok(s) THEN [s EXCEPT !.objects[a].m_id = NULL] ELSE s

\* the end of the try block of remove(), or a handler without ghostify()
removed_or_rethrown(s, a) ==
    IF ~Ok(s) THEN CancelAndRethrow(s, s.exc)
    ELSE ClearIdIfOk(partially_uncache_object(s, s.objects[a].m_cache_key), a)

\* the end of the try block of remove(), or the handler
\* catch (std::exception&) { ghostify(); transaction.cancel(); throw; }
RemovedOrGhostified(s, a) ==
    IF ~Ok(s) THEN CancelAndRethrow(ghostify(s, a), s.exc)
    ELSE ClearIdIfOk(partially_uncache_object(s, s.objects[a].m_cache_key), a)

\* remove() from the construction of its DatabaseTransaction, t
remove_try(t, a, failing) ==
    IF ~Ok(t.c) THEN t.c
    ELSE RemovedOrGhostified(CommitIfOk(do_remove(t.c, a, failing)), a)

remove(s, a, failing) ==
    IF has_id(s.objects[a])
    THEN remove_try(DatabaseTransaction(s), a, failing)
    ELSE s

(***************************************************************************)
(* The state after construction: an open connection on a fresh database    *)
(* whose root table is empty, no transaction scope.                        *)
(***************************************************************************)
Last(op, c, i, k) ==
    [op |-> op, exc |-> c.exc, cmds |-> c.cmds, inj |-> c.inj, i |-> i, k |-> k,
     o |-> NULL, born |-> FALSE]

\* keys: the values of the type CacheKey
InitOver(t, keys) ==
    /\ tracing = t
    /\ m_transaction_nesting_level = 0
    /\ db = EmptyDb
    /\ savepoints = <<>>
    /\ scopes = <<>>
    /\ pc = "run"
    /\ last = [op |-> "init", exc |-> "none", cmds |-> <<>>, inj |-> FALSE,
               i |-> 0, k |-> 0, o |-> NULL, born |-> FALSE]
    /\ wstate = [k \in Ids |-> "none"]
    /\ tags = [k \in Ids |-> {}]
    /\ proper = TRUE
    /\ m_cache_key_map = [k \in keys |-> NULL]
    /\ m_id_map = [k \in Ids |-> NULL]
    /\ m_last_cache_key = 0
    /\ m_is_caching = FALSE
    /\ objects = [a \in Addresses |-> NoObject]
    /\ handles = [h \in HandleSlots |-> NULL]
    /\ m_statement_cache = [txt \in Texts |-> NULL]
    /\ wrappers = [w \in WrapperAddresses |-> NoWrapper]
    /\ statements = [i \in StatementSlots |-> NULL]
    /\ cast_handles = [h \in CastSlots |-> NoHandle]
    /\ dynamic_type = [a \in Addresses |-> "none"]
    /\ cursors = [c \in CursorSlots |-> NoCursor]
    /\ iterators = [i \in IteratorSlots |-> NoIterator]

InitWith(t) == InitOver(t, CacheKeys)

Init == InitWith(TRUE)

SetConn(c) ==
    /\ m_transaction_nesting_level' = c.level
    /\ db' = c.db
    /\ savepoints' = c.sp

ActiveScopes == {i \in 1 .. Len(scopes) : scopes[i].m_is_active}

(***************************************************************************)
(* History of the writes, kept beside the program state: a scope that is   *)
(* resolved leaves the tags of the writes made in it; cancelling it dooms  *)
(* them.                                                                   *)
(***************************************************************************)
Resolve(i, after, cancelled) ==
    LET was == scopes[i].m_is_active
        resolved == was /\ ~after
        innermost == \A j \in (i + 1) .. Len(scopes) : ~scopes[j].m_is_active
    IN  /\ proper' = (proper /\ (was => (resolved /\ innermost)))
        /\ tags' = IF resolved THEN [k \in Ids |-> tags[k] \ {i}] ELSE tags
        /\ wstate' = IF resolved /\ cancelled
                     THEN [k \in Ids |-> IF i \in tags[k] /\ wstate[k] = "live"
                                         THEN "doomed" ELSE wstate[k]]
                     ELSE wstate

(***************************************************************************)
(* Operations on transaction scopes                                        *)
(***************************************************************************)
\* DatabaseTransaction transaction(dbc);
NewTransactionCore(F) ==
    /\ pc = "run"
    /\ Len(scopes) < MaxScopes
    /\ LET r == DatabaseTransaction(Call(F))
       IN  /\ SetConn(r.c)
           /\ scopes' = IF r.m_is_active
                        THEN Append(scopes, [m_is_active |-> TRUE])
                        ELSE scopes
           /\ last' = Last("DatabaseTransaction", r.c, Len(scopes) + 1, 0)
    /\ pc' = pc
    /\ UNCHANGED <<tracing, mapVars, stmtVars, castVars, iterVars>>

\* transaction.commit();
CommitCore(i, F) ==
    /\ pc = "run"
    /\ i \in 1 .. Len(scopes)
    /\ LET r == commit(Call(F), scopes[i].m_is_active)
       IN  /\ SetConn(r.c)
           /\ scopes' = [scopes EXCEPT ![i].m_is_active = r.m_is_active]
           /\ last' = Last("commit", r.c, i, 0)
    /\ pc' = pc
    /\ UNCHANGED <<tracing, mapVars, stmtVars, castVars, iterVars>>

\* transaction.cancel();
CancelCore(i, F) ==
    /\ pc = "run"
    /\ i \in 1 .. Len(scopes)
    /\ LET r == cancel(Call(F), scopes[i].m_is_active)
       IN  /\ SetConn(r.c)
           /\ scopes' = [scopes EXCEPT ![i].m_is_active = r.m_is_active]
           /\ last' = Last("cancel", r.c, i, 0)
    /\ pc' = pc
    /\ UNCHANGED <<tracing, mapVars, stmtVars, castVars, iterVars>>

\* the youngest scope leaves its block
DestroyCore(F) ==
    /\ pc = "run"
    /\ scopes # <<>>
    /\ LET i == Len(scopes)
           r == DatabaseTransactionDtor(Call(F), scopes[i].m_is_active)
       IN  /\ SetConn(r.c)
           /\ scopes' = IF Ok(r.c) THEN SubSeq(scopes, 1, i - 1) ELSE scopes
           /\ pc' = IF Ok(r.c) THEN pc ELSE "terminated"
           /\ last' = Last("~DatabaseTransaction", r.c, i, 0)
    /\ UNCHANGED <<tracing, mapVars, stmtVars, castVars, iterVars>>

\* dbc.execute_sql("insert into <root table>(x) values(v)")
WriteCore(v) ==
    /\ pc = "run"
    /\ db.seq < MaxId
    /\ db' = InsertRow(db, v)
    /\ last' = [op |-> "insert", exc |-> "none", cmds |-> <<>>, inj |-> FALSE,
                i |-> 0, k |-> db.seq + 1, o |-> NULL, born |-> FALSE]
    /\ UNCHANGED <<m_transaction_nesting_level, savepoints, scopes, pc>>
    /\ UNCHANGED <<tracing, mapVars, stmtVars, castVars, iterVars>>

NewTransaction == \E F \in FailSets(1) :
    NewTransactionCore(F) /\ UNCHANGED ghostVars

Commit == \E i \in 1 .. MaxScopes, F \in FailSets(1) :
    CommitCore(i, F) /\ Resolve(i, scopes'[i].m_is_active, FALSE)

Cancel == \E i \in 1 .. MaxScopes, F \in FailSets(2) :
    CancelCore(i, F) /\ Resolve(i, scopes'[i].m_is_active, TRUE)

Destroy == \E F \in FailSets(2) :
    DestroyCore(F) /\ Resolve(Len(scopes), pc' = "terminated", TRUE)

\* the value written plays no part in what a scope does to it
Write ==
    /\ WriteCore(0)
    /\ wstate' = [wstate EXCEPT ![db.seq + 1] = "live"]
    /\ tags' = [tags EXCEPT ![db.seq + 1] = ActiveScopes]
    /\ proper' = proper

TxNext == NewTransaction \/ Commit \/ Cancel \/ Destroy \/ Write

SpecTx == Init /\ [][TxNext]_vars

(***************************************************************************)
(* The connection's transaction functions called one by one, as            *)
(* DatabaseTransaction reaches them through TransactionAttorney.           *)
(***************************************************************************)
ConnCall(op, c) ==
    /\ pc = "run"
    /\ SetConn(c)
    /\ last' = Last(op, c, 0, 0)
    /\ UNCHANGED <<scopes, pc, wstate, tags, proper>>
    /\ UNCHANGED <<tracing, mapVars, stmtVars, castVars, iterVars>>

BeginTransaction == \E F \in FailSets(1) :
    ConnCall("begin_transaction", begin_transaction(Call(F)))

EndTransaction == \E F \in FailSets(1) :
    ConnCall("end_transaction", end_transaction(Call(F)))

CancelTransaction == \E F \in FailSets(2) :
    ConnCall("cancel_transaction", cancel_transaction(Call(F)))

ExecuteSql == \E v \in Vals :
    WriteCore(v) /\ UNCHANGED ghostVars

ConnNext == BeginTransaction \/ EndTransaction \/ CancelTransaction \/ ExecuteSql

SpecConn == Init /\ [][ConnNext]_vars

(***************************************************************************)
(* The statement cache.  SQLStatement objects share the SQLStatementImpl   *)
(* wrappers with the cache through shared pointers: a wrapper is destroyed *)
(* when neither the cache nor a SQLStatement holds it.                     *)
(***************************************************************************)
StatementCall ==
    [m_statement_cache |-> m_statement_cache, wrappers |-> wrappers]

WrapperHeld(c, ss, w) ==
    \/ \E txt \in Texts : c.m_statement_cache[txt] = w
    \/ \E i \in StatementSlots : ss[i] = w

\* the shared pointers' deleter
ReclaimWrappers(c, ss) ==
    [c EXCEPT !.wrappers = [w \in WrapperAddresses |->
        IF WrapperHeld(c, ss, w) THEN c.wrappers[w] ELSE NoWrapper]]

\* m_statement_cache.size()
CacheSize(c) == Cardinality({txt \in Texts : c.m_statement_cache[txt] # NULL})

\* where new detail::SQLStatementImpl(...) places the wrapper
FreeWrapper(c) == Min({w \in WrapperAddresses : ~c.wrappers[w].alive})

\* new_statement->lock(); cache[text] = new_statement; whatever the size
NewStatementCached(c, text, w) ==
    [c |-> [c EXCEPT
              !.wrappers[w] = [alive |-> TRUE, text |-> text,
                               m_is_locked |-> TRUE, stepped |-> FALSE,
                               bound |-> FALSE],
              !.m_statement_cache[text] = w],
     ptr |-> w, born |-> TRUE]

\* new_statement->lock(); if (size != capacity) cache[text] = new_statement;
NewStatement(c, text, w) ==
    [c |-> [c EXCEPT
              !.wrappers[w] = [alive |-> TRUE, text |-> text,
                               m_is_locked |-> TRUE, stepped |-> FALSE,
                               bound |-> FALSE],
              !.m_statement_cache[text] =
                  IF CacheSize(c) # m_cache_capacity THEN w ELSE @],
     ptr |-> w, born |-> TRUE]

\* provide_sql_statement that hands out the cached wrapper locked or not
provide_sql_statement_unlocked_or_not(c, text) ==
    IF c.m_statement_cache[text] # NULL
    THEN [c |-> [c EXCEPT
                   !.wrappers[c.m_statement_cache[text]].m_is_locked = TRUE],
          ptr |-> c.m_statement_cache[text], born |-> FALSE]
    ELSE NewStatement(c, text, FreeWrapper(c))

provide_sql_statement(c, text) ==
    IF /\ c.m_statement_cache[text] # NULL
       /\ ~c.wrappers[c.m_statement_cache[text]].m_is_locked
    THEN [c |-> [c EXCEPT
                   !.wrappers[c.m_statement_cache[text]].m_is_locked = TRUE],
          ptr |-> c.m_statement_cache[text], born |-> FALSE]
    ELSE NewStatement(c, text, FreeWrapper(c))

\* SQLStatementImpl::reset, clear_bindings, unlock
reset(c, w) == [c EXCEPT !.wrappers[w].stepped = FALSE]
clear_bindings(c, w) == [c EXCEPT !.wrappers[w].bound = FALSE]
unlock(c, w) == [c EXCEPT !.wrappers[w].m_is_locked = FALSE]

\* SQLStatementImpl::bind: on failure reset() and clear_bindings(), rethrow
bind(c, w, ok) ==
    IF ok THEN [c EXCEPT !.wrappers[w].bound = TRUE]
    ELSE clear_bindings(reset(c, w), w)

\* SQLStatementImpl::step: a result row, done (the statement is reset), or a
\* failure of sqlite3_step
step(c, w, code) ==
    CASE code = "SQLITE_ROW" -> [c EXCEPT !.wrappers[w].stepped = TRUE]
      [] code = "SQLITE_DONE" -> reset(c, w)
      [] OTHER -> clear_bindings(reset(c, w), w)

\* SQLStatement::~SQLStatement
SQLStatementDtor(c, w) == unlock(clear_bindings(reset(c, w), w), w)

SetStatements(op, c, ss, i, w, exc, born) ==
    /\ m_statement_cache' = c.m_statement_cache
    /\ wrappers' = c.wrappers
    /\ statements' = ss
    /\ last' = [op |-> op, exc |-> exc, cmds |-> <<>>, inj |-> FALSE,
                i |-> i, k |-> 0, o |-> w, born |-> born]
    /\ UNCHANGED <<connVars, scopes, pc, tracing, ghostVars, mapVars, castVars, iterVars>>

ProvidedStatement(r, i) ==
    SetStatements("SQLStatement", r.c, [statements EXCEPT ![i] = r.ptr],
                  i, r.ptr, "none", r.born)

\* SQLStatement statement(dbc, text);
SQLStatement ==
    \E i \in StatementSlots, text \in Texts :
        /\ statements[i] = NULL
        /\ ProvidedStatement(provide_sql_statement(StatementCall, text), i)

\* statement.bind(":p", x);
BindStatement ==
    \E i \in StatementSlots, ok \in BOOLEAN :
        /\ statements[i] # NULL
        /\ SetStatements("bind", bind(StatementCall, statements[i], ok),
                         statements, i, statements[i],
                         IF ok THEN "none" ELSE "SQLiteException", FALSE)

\* statement.step();
StepStatement ==
    \E i \in StatementSlots,
       code \in {"SQLITE_ROW", "SQLITE_DONE", "SQLITE_ERROR"} :
        /\ statements[i] # NULL
        /\ SetStatements("step", step(StatementCall, statements[i], code),
                         statements, i, statements[i],
                         IF code = "SQLITE_ERROR" THEN "SQLiteException"
                         ELSE "none", FALSE)

\* the SQLStatement leaves its block
DestroyStatement ==
    \E i \in StatementSlots :
        /\ statements[i] # NULL
        /\ SetStatements("~SQLStatement",
               ReclaimWrappers(SQLStatementDtor(StatementCall, statements[i]),
                               [statements EXCEPT ![i] = NULL]),
               [statements EXCEPT ![i] = NULL],
               i, statements[i], "none", FALSE)

StatementNext ==
    SQLStatement \/ BindStatement \/ StepStatement \/ DestroyStatement

SpecStatements == Init /\ [][StatementNext]_vars

(***************************************************************************)
(* The engine's prepared statement and the wrapper's operations on it:     *)
(* step, step_final and extract.  A value in a row is a fundamental        *)
(* datatype and a number.                                                  *)
(***************************************************************************)
Value(type, val) == [type |-> type, val |-> val]

\* the statements the client prepares: one that returns no data, a query
\* with no result rows, and a query of two columns with two result rows
PreparedStatements ==
    {[alive |-> TRUE, columns |-> 0, rows |-> <<>>, row |-> 0,
      bound |-> FALSE, failed |-> FALSE],
     [alive |-> TRUE, columns |-> 2, rows |-> <<>>, row |-> 0,
      bound |-> FALSE, failed |-> FALSE],
     [alive |-> TRUE, columns |-> 2,
      rows |-> <<<<Value("SQLITE_INTEGER", 1), Value("SQLITE_TEXT", 7)>>,
                 <<Value("SQLITE_INTEGER", 2), Value("SQLITE_NULL", 0)>>>>,
      row |-> 0, bound |-> FALSE, failed |-> FALSE]}

sqlite3_reset(st) == [st EXCEPT !.row = 0]
sqlite3_clear_bindings(st) == [st EXCEPT !.bound = FALSE]

\* sqlite3_step: the next row, or done, after which the statement is before
\* its first row again; err: the engine reports an error
sqlite3_step(st, err) ==
    IF err THEN [code |-> "SQLITE_ERROR", st |-> st]
    ELSE IF st.row < Len(st.rows)
    THEN [code |-> "SQLITE_ROW", st |-> [st EXCEPT !.row = @ + 1]]
    ELSE [code |-> "SQLITE_DONE", st |-> [st EXCEPT !.row = 0]]

\* the catch block and the switch of SQLStatementImpl::step
Stepped(r) ==
    CASE r.code = "SQLITE_ERROR" ->
            [st |-> sqlite3_clear_bindings(sqlite3_reset(r.st)),
             ret |-> FALSE, exc |-> "SQLiteException"]
      [] r.code = "SQLITE_DONE" ->
            [st |-> r.st, ret |-> FALSE, exc |-> "none"]
      [] OTHER ->
            [st |-> r.st, ret |-> TRUE, exc |-> "none"]

\* SQLStatementImpl::step
step_statement(st, err) == Stepped(sqlite3_step(st, err))

\* a step_final that throws at a row and leaves the statement there
ThrowIfRow(r) ==
    IF r.ret THEN [st |-> r.st, ret |-> FALSE, exc |-> "UnexpectedResultRow"]
    ELSE r

\* if (step()) { reset(); JEWEL_THROW(UnexpectedResultRow, ...); }
ResetIfRow(r) ==
    IF r.ret
    THEN [st |-> sqlite3_reset(r.st), ret |-> FALSE,
          exc |-> "UnexpectedResultRow"]
    ELSE r

\* SQLStatementImpl::step_final
step_final(st, err) == ResetIfRow(step_statement(st, err))

\* sqlite3_column_count: the columns of the result set of the prepared
\* statement, whether or not it is at a row
sqlite3_column_count(st) == st.columns

\* sqlite3_column_type: undefined when the statement is at no row; ub is
\* what the engine yields then
sqlite3_column_type(st, index, ub) ==
    IF st.row # 0 THEN st.rows[st.row][index + 1].type ELSE ub

\* SQLStatementImpl::check_column: the exception it throws, or "none"
check_column(st, index, value_type, ub) ==
    IF sqlite3_column_count(st) = 0 THEN "NoResultRowException"
    ELSE IF index >= sqlite3_column_count(st) THEN "ResultIndexOutOfRange"
    ELSE IF index < 0 THEN "ResultIndexOutOfRange"
    ELSE IF value_type # sqlite3_column_type(st, index, ub)
    THEN "ValueTypeException"
    ELSE "none"

\* sqlite3_column_int and the like: 0 when the statement is at no row
sqlite3_column_value(st, index) ==
    IF st.row # 0 THEN st.rows[st.row][index + 1].val ELSE 0

\* SQLStatementImpl::extract<T>, T having the fundamental datatype value_type
extract(st, index, value_type, ub) ==
    [exc |-> check_column(st, index, value_type, ub),
     val |-> IF check_column(st, index, value_type, ub) = "none"
             THEN sqlite3_column_value(st, index) ELSE 0]

CursorCall(op, c, st, exc, ret, index, value_type, val) ==
    /\ cursors' = [cursors EXCEPT ![c] = st]
    /\ last' = [op |-> op, exc |-> exc, cmds |-> <<>>, inj |-> FALSE,
                i |-> c, k |-> index, o |-> val, born |-> FALSE,
                ret |-> ret, value_type |-> value_type]
    /\ UNCHANGED <<connVars, scopes, pc, tracing, ghostVars, mapVars,
                   stmtVars, castVars, iterators>>

\* SQLStatement s(dbc, text);
Prepare ==
    \E c \in CursorSlots, st \in PreparedStatements :
        /\ ~cursors[c].alive
        /\ CursorCall("SQLStatement", c, st, "none", FALSE, 0, "", 0)

\* s.bind(":p", x);
BindCursor ==
    \E c \in CursorSlots :
        /\ cursors[c].alive
        /\ CursorCall("bind", c, [cursors[c] EXCEPT !.bound = TRUE], "none",
                      FALSE, 0, "", 0)

StepCall(op, c, r) == CursorCall(op, c, r.st, r.exc, r.ret, 0, "", 0)

\* s.step();
StepCursor ==
    \E c \in CursorSlots, err \in BOOLEAN :
        /\ cursors[c].alive
        /\ StepCall("step", c, step_statement(cursors[c], err))

\* s.step_final();
StepFinalCursor ==
    \E c \in CursorSlots, err \in BOOLEAN :
        /\ cursors[c].alive
        /\ StepCall("step_final", c, step_final(cursors[c], err))

ExtractCall(c, index, value_type, r) ==
    CursorCall("extract", c, cursors[c], r.exc, FALSE, index, value_type,
               r.val)

\* s.extract<T>(index);
ExtractCursor ==
    \E c \in CursorSlots, index \in -1 .. 2,
       value_type \in ValueTypes \ {"SQLITE_NULL"}, ub \in ValueTypes :
        /\ cursors[c].alive
        /\ ExtractCall(c, index, value_type,
                       extract(cursors[c], index, value_type, ub))

\* s.reset();
ResetCursor ==
    \E c \in CursorSlots :
        /\ cursors[c].alive
        /\ CursorCall("reset", c, sqlite3_reset(cursors[c]), "none", FALSE,
                      0, "", 0)

\* s leaves its block
FinalizeCursor ==
    \E c \in CursorSlots :
        /\ cursors[c].alive
        /\ CursorCall("~SQLStatement", c, NoCursor, "none", FALSE, 0, "", 0)

CursorNext ==
    \/ Prepare \/ BindCursor \/ StepCursor \/ StepFinalCursor
    \/ ExtractCursor \/ ResetCursor \/ FinalizeCursor

SpecCursor == Init /\ [][CursorNext]_vars

(***************************************************************************)
(* TableIterator<Handle<T> >.  m_impl is the shared pointer to the Impl,   *)
(* which owns the statement; m_maybe_object is the optional Handle, here   *)
(* the id of the object it is bound to (NULL: the optional is empty).      *)
(***************************************************************************)
\* the results of the queries: the ids 1 .. n in ascending or in descending
\* order
Results ==
    UNION {{[x \in 1 .. n |-> x], [x \in 1 .. n |-> n + 1 - x]} :
              n \in 0 .. MaxRows}

\* the statement of an Impl whose query has the result q
IdQuery(q) ==
    [alive |-> TRUE, columns |-> 1,
     rows |-> [x \in DOMAIN q |-> <<Value("SQLITE_INTEGER", q[x])>>],
     row |-> 0, bound |-> FALSE, failed |-> FALSE]

\* an Impl::next that leaves out as it is when the statement is done
next_keeping_out(r, out) ==
    IF r.exc # "none"
    THEN [st |-> [r.st EXCEPT !.failed = TRUE], out |-> out, exc |-> r.exc]
    ELSE IF r.ret
    THEN [st |-> r.st, exc |-> "none",
          out |-> extract(r.st, 0, "SQLITE_INTEGER", "SQLITE_NULL").val]
    ELSE [st |-> r.st, out |-> out, exc |-> "none"]

\* the body of Impl::next, r being what m_sql_statement.step() did: out is
\* create_unchecked(m_connection, extract<Id>(0)) at a row and empty when
\* the statement is done; after an exception the statement is not to be used
next_out(r, out) ==
    IF r.exc # "none"
    THEN [st |-> [r.st EXCEPT !.failed = TRUE], out |-> out, exc |-> r.exc]
    ELSE IF r.ret
    THEN [st |-> r.st, exc |-> "none",
          out |-> extract(r.st, 0, "SQLITE_INTEGER", "SQLITE_NULL").val]
    ELSE [st |-> r.st, out |-> NULL, exc |-> "none"]

\* TableIterator::Impl::next
Impl_next(st, out, err) == next_out(step_statement(st, err), out)

\* an advance that hands the new object to every copy
advance_all_copies(its, i, out) ==
    [j \in IteratorSlots |->
        IF its[j].alive /\ its[j].m_impl = its[i].m_impl
        THEN [its[j] EXCEPT !.m_maybe_object = out] ELSE its[j]]

\* TableIterator::advance: m_impl->next(m_maybe_object)
advance(its, i, out) == [its EXCEPT ![i].m_maybe_object = out]

\* an operator!= that compares the objects held
differ_in_object(a, b) == a.m_maybe_object # b.m_maybe_object

\* TableIterator::operator!=
not_equal(a, b) == a.m_maybe_object # NULL \/ b.m_maybe_object # NULL

\* TableIterator::operator==
equal(a, b) == ~not_equal(a, b)

\* the shared pointers' deleter: an Impl no TableIterator refers to
ReclaimImpls(its) ==
    [c \in CursorSlots |->
        IF \E j \in IteratorSlots : its[j].alive /\ its[j].m_impl = c
        THEN cursors[c] ELSE NoCursor]

\* the operation op on iterators i and k left the iterators its and the
\* statements curs
IterCall(op, its, curs, i, k, exc, ret) ==
    /\ iterators' = its
    /\ cursors' = curs
    /\ last' = [op |-> op, exc |-> exc, cmds |-> <<>>, inj |-> FALSE,
                i |-> i, k |-> k, o |-> its[i].m_maybe_object,
                born |-> FALSE, ret |-> ret,
                was |-> iterators[i].m_maybe_object]
    /\ UNCHANGED <<connVars, scopes, pc, tracing, ghostVars, mapVars,
                   stmtVars, castVars>>

\* the iterator is not one that an exception has left unusable
Usable(i) ==
    /\ iterators[i].alive
    /\ iterators[i].m_impl # NULL => ~cursors[iterators[i].m_impl].failed

\* TableIterator it;
IterDefault ==
    \E i \in IteratorSlots :
        /\ ~iterators[i].alive
        /\ IterCall("TableIterator()",
                    [iterators EXCEPT ![i] = [alive |-> TRUE, m_impl |-> NULL,
                                              m_maybe_object |-> NULL]],
                    cursors, i, 0, "none", FALSE)

Constructed(i, c, r) ==
    IF r.exc # "none"
    THEN IterCall("TableIterator", iterators, cursors, i, 0, r.exc, FALSE)
    ELSE IterCall("TableIterator",
                  [iterators EXCEPT ![i] = [alive |-> TRUE, m_impl |-> c,
                                            m_maybe_object |-> r.out]],
                  [cursors EXCEPT ![c] = r.st], i, 0, "none", FALSE)

\* TableIterator it(dbc, text);
IterConstruct ==
    \E i \in IteratorSlots, c \in CursorSlots, q \in Results,
       err \in BOOLEAN :
        /\ ~iterators[i].alive
        /\ ~cursors[c].alive
        /\ \A d \in CursorSlots : ~cursors[d].alive => c <= d
        /\ Constructed(i, c, Impl_next(IdQuery(q), NULL, err))

\* TableIterator jt(it);
IterCopy ==
    \E i, j \in IteratorSlots :
        /\ Usable(i) /\ ~iterators[j].alive
        /\ IterCall("copy", [iterators EXCEPT ![j] = iterators[i]], cursors,
                    i, j, "none", FALSE)

Advanced(op, its, i, k, r) ==
    IterCall(op,
             IF r.exc = "none" THEN advance(its, i, r.out) ELSE iterators,
             [cursors EXCEPT ![iterators[i].m_impl] = r.st], i, k, r.exc,
             FALSE)

\* ++it;
IterPreIncrement ==
    \E i \in IteratorSlots, err \in BOOLEAN :
        /\ Usable(i)
        /\ IF iterators[i].m_impl = NULL
           THEN IterCall("++it", iterators, cursors, i, 0, "none", FALSE)
           ELSE Advanced("++it", iterators, i, 0,
                         Impl_next(cursors[iterators[i].m_impl],
                                   iterators[i].m_maybe_object, err))

\* TableIterator jt(it++);
IterPostIncrement ==
    \E i, j \in IteratorSlots, err \in BOOLEAN :
        /\ Usable(i) /\ ~iterators[j].alive
        /\ IF iterators[i].m_impl = NULL
           THEN IterCall("it++", [iterators EXCEPT ![j] = iterators[i]],
                         cursors, i, j, "none", FALSE)
           ELSE Advanced("it++", [iterators EXCEPT ![j] = iterators[i]], i, j,
                         Impl_next(cursors[iterators[i].m_impl],
                                   iterators[i].m_maybe_object, err))

\* it == jt, which is !(it != jt)
IterCompare ==
    \E i, j \in IteratorSlots :
        /\ Usable(i) /\ Usable(j)
        /\ IterCall("==", iterators, cursors, i, j, "none",
                    equal(iterators[i], iterators[j]))

\* it leaves its block
IterDestroy ==
    \E i \in IteratorSlots :
        /\ iterators[i].alive
        /\ IterCall("~TableIterator", [iterators EXCEPT ![i] = NoIterator],
                    ReclaimImpls([iterators EXCEPT ![i] = NoIterator]),
                    i, 0, "none", FALSE)

IterNext ==
    \/ IterDefault \/ IterConstruct \/ IterCopy \/ IterPreIncrement
    \/ IterPostIncrement \/ IterCompare \/ IterDestroy

SpecIter == Init /\ [][IterNext]_vars

(***************************************************************************)
(* The cache keys of an identity map whose key type has MaxCacheKey        *)
(* values: keys are provided for new objects and given up as objects are   *)
(* uncached, in any order.                                                 *)
(***************************************************************************)
KeyCall(op, r, key_map) ==
    /\ m_cache_key_map' = key_map
    /\ m_last_cache_key' = r.s.m_last_cache_key
    /\ last' = [op |-> op, exc |-> r.s.exc, cmds |-> <<>>, inj |-> FALSE,
                i |-> 0, k |-> 0, o |-> r.key, born |-> FALSE]
    /\ UNCHANGED <<connVars, scopes, pc, tracing, ghostVars, m_id_map,
                   m_is_caching, objects, handles, stmtVars, castVars,
                   iterVars>>

\* m_cache_key_map.insert(...) with the key that provide_cache_key returned
KeyInserted(r) ==
    KeyCall("provide_cache_key", r,
            IF Ok(r.s) THEN [m_cache_key_map EXCEPT ![r.key] = r.key]
            ELSE m_cache_key_map)

\* provide_pointer: CacheKey const cache_key = provide_cache_key(); ...
ProvideKey == KeyInserted(provide_cache_key(Call({})))

\* uncache_object: m_cache_key_map.erase(p_cache_key)
EraseKey ==
    \E k \in 1 .. MaxCacheKey :
        /\ m_cache_key_map[k] # NULL
        /\ KeyCall("erase", [s |-> Call({}), key |-> k],
                   [m_cache_key_map EXCEPT ![k] = NULL])

KeysNext == ProvideKey \/ EraseKey

SpecKeys == InitOver(TRUE, 1 .. MaxCacheKey) /\ [][KeysNext]_vars

(***************************************************************************)
(* The client of one identity map: Handle variables, the objects reached   *)
(* through them, the caching switch, and transaction scopes of its own.    *)
(***************************************************************************)
SetMap(s) ==
    /\ m_cache_key_map' = s.m_cache_key_map
    /\ m_id_map' = s.m_id_map
    /\ m_last_cache_key' = s.m_last_cache_key
    /\ m_is_caching' = s.m_is_caching
    /\ objects' = s.objects

Outcome(s) ==
    IF s.exc \in {"assert", "terminate"} THEN "terminated"
    ELSE IF s.hung THEN "hung"
    ELSE "run"

\* the operation op, on Handle variable h and object o with argument k, ran
\* and left the state s and the Handle variables hs
MapCall(op, s, hs, h, k, o) ==
    /\ SetConn(s)
    /\ SetMap(s)
    /\ handles' = hs
    /\ pc' = Outcome(s)
    /\ last' = IF tracing
               THEN [op |-> op, exc |-> s.exc, cmds |-> s.cmds, inj |-> s.inj,
                     i |-> h, k |-> k, o |-> o, born |-> s.born]
               ELSE last
    /\ UNCHANGED <<scopes, tracing, wstate, tags, proper, stmtVars, castVars, iterVars>>

\* the object made by r is placed at an address that holds no object
FreshAddress(r) == (Ok(r.s) /\ r.s.born) => ~objects[r.ptr].alive

\* the Handle constructors, given what get_pointer returned
Bind(op, r, h, k) ==
    LET s2 == IF Ok(r.s) THEN increment_handle_counter(r.s, r.ptr) ELSE r.s
    IN  /\ FreshAddress(r)
        /\ MapCall(op, s2, IF Ok(s2) THEN [handles EXCEPT ![h] = r.ptr]
                           ELSE handles, h, k, r.ptr)

\* Handle<T> h(dbc);
HandleNewAt(h) ==
    /\ pc = "run" /\ handles[h] = NULL
    /\ Bind("Handle", provide_pointer(Call({})), h, 0)

\* Handle<T> h(dbc, id);
HandleByIdAt(h, id) ==
    /\ pc = "run" /\ handles[h] = NULL
    /\ Bind("Handle_id", provide_pointer_by_id(Call({}), id), h, id)

\* Handle<T> h(Handle<T>::create_unchecked(dbc, id)); the caller knows that
\* the row exists
HandleCreateUncheckedAt(h, id) ==
    /\ pc = "run" /\ handles[h] = NULL
    /\ RowPresent(id)
    /\ Bind("create_unchecked", unchecked_provide_pointer(Call({}), id), h, id)

\* Handle<T> h(g);
HandleCopyAt(h, g) ==
    /\ pc = "run" /\ handles[h] = NULL /\ h # g
    /\ LET s == IF handles[g] # NULL
                THEN increment_handle_counter(Call({}), handles[g])
                ELSE Call({})
       IN  MapCall("copy", s, IF Ok(s) THEN [handles EXCEPT ![h] = handles[g]]
                              ELSE handles, h, g, handles[g])

\* if (m_pointer) m_pointer->decrement_handle_counter();
ReleaseOwn(s, p) ==
    IF Ok(s) /\ p # NULL THEN decrement_handle_counter(s, p) ELSE s

\* operator= that gives up its own referent before it counts the new one,
\* and does so when assigned to itself as well
copy_assign_releasing_first(s, hs, h, g) ==
    LET s1 == ReleaseOwn(s, hs[h])
    IN  IF Ok(s1) /\ hs[g] # NULL
        THEN [s1 EXCEPT !.objects[hs[g]].m_handle_counter = @ + 1]
        ELSE s1

\* if (this != &rhs) { if (rhs.m_pointer) increment; if (m_pointer)
\* decrement; ... }: the counters and the map that operator= leaves
copy_assign(s, hs, h, g) ==
    IF h = g THEN s
    ELSE ReleaseOwn(IF hs[g] # NULL
                    THEN increment_handle_counter(s, hs[g])
                    ELSE s, hs[h])

\* h = g;   ... m_pointer = rhs.m_pointer;
HandleCopyAssignAt(h, g) ==
    /\ pc = "run"
    /\ LET s == copy_assign(Call({}), handles, h, g)
       IN  MapCall("copy_assign", s,
                   IF Ok(s) THEN [handles EXCEPT ![h] = handles[g]]
                   ELSE handles, h, g, handles[h])

\* Handle<T> h(std::move(g));
HandleMoveAt(h, g) ==
    /\ pc = "run" /\ handles[h] = NULL /\ h # g /\ handles[g] # NULL
    /\ MapCall("move", Call({}),
               [handles EXCEPT ![h] = handles[g], ![g] = NULL],
               h, g, handles[g])

\* if (this != &rhs) { m_pointer = std::move(rhs.m_pointer); ... }
move_assign(hs, h, g) ==
    IF h = g THEN hs ELSE [hs EXCEPT ![h] = hs[g], ![g] = NULL]

RECURSIVE SumOfCounters(_)
SumOfCounters(A) ==
    IF A = {} THEN 0
    ELSE LET a == CHOOSE x \in A : TRUE
         IN  objects[a].m_handle_counter + SumOfCounters(A \ {a})

\* the counts that no Handle variable accounts for
Unaccounted ==
    SumOfCounters(Addresses) - Cardinality({h \in HandleSlots : handles[h] # NULL})

\* h = std::move(g); the client does it at most MaxLeaks times while h is
\* bound
HandleMoveAssignAt(h, g) ==
    /\ pc = "run" /\ handles[h] # NULL
    /\ h # g => Unaccounted < MaxLeaks
    /\ MapCall("move_assign", Call({}), move_assign(handles, h, g),
               h, g, handles[h])

\* h leaves its block
HandleDestroyAt(h) ==
    /\ pc = "run" /\ handles[h] # NULL
    /\ MapCall("~Handle", decrement_handle_counter(Call({}), handles[h]),
               [handles EXCEPT ![h] = NULL], h, 0, handles[h])

\* h->save();
SaveAt(h, F, failing) ==
    /\ pc = "run" /\ handles[h] # NULL
    /\ MapCall("save", save(Call(F), handles[h], failing), handles,
               h, db.seq + 1, handles[h])

\* h->remove();
RemoveAt(h, F, failing) ==
    /\ pc = "run" /\ handles[h] # NULL
    /\ MapCall("remove", remove(Call(F), handles[h], failing), handles,
               h, 0, handles[h])

\* void ExampleA::set_x(int p_x) { load(); m_x = p_x; }
set_x(s, a, p_x, failing) ==
    LET s1 == load(s, a, failing)
    IN  IF Ok(s1) /\ ~s1.hung THEN [s1 EXCEPT !.objects[a].m_x = p_x] ELSE s1

\* h->set_x(v);
SetXAt(h, v, F, failing) ==
    /\ pc = "run" /\ handles[h] # NULL
    /\ MapCall("set_x", set_x(Call(F), handles[h], v, failing), handles,
               h, v, handles[h])

\* h->x();
GetXAt(h, F, failing) ==
    /\ pc = "run" /\ handles[h] # NULL
    /\ MapCall("x", load(Call(F), handles[h], failing), handles,
               h, 0, handles[h])

\* h->ghostify();
GhostifyAt(h) ==
    /\ pc = "run" /\ handles[h] # NULL
    /\ MapCall("ghostify", ghostify(Call({}), handles[h]), handles,
               h, 0, handles[h])

\* dbc.identity_map<T>().enable_caching();
EnableCaching ==
    /\ pc = "run"
    /\ MapCall("enable_caching", enable_caching(Call({})), handles, 0, 0, NULL)

\* dbc.identity_map<T>().disable_caching();
DisableCaching ==
    /\ pc = "run"
    /\ MapCall("disable_caching", disable_caching(Call({})), handles,
               0, 0, NULL)

\* The client's own transaction scopes, used in blocks:
\* { DatabaseTransaction transaction(dbc); ... transaction.commit(); }
ScopeCall(op, c, ss) ==
    /\ SetConn(c)
    /\ scopes' = ss
    /\ pc' = Outcome(c)
    /\ last' = IF tracing
               THEN [op |-> op, exc |-> c.exc, cmds |-> <<>>, inj |-> c.inj,
                     i |-> Len(scopes), k |-> 0, o |-> NULL, born |-> FALSE]
               ELSE last
    /\ UNCHANGED <<tracing, wstate, tags, proper, stmtVars, castVars, iterVars>>
    /\ UNCHANGED mapVars

BeginScope ==
    /\ pc = "run" /\ Len(scopes) < MaxUserScopes
    /\ LET r == DatabaseTransaction(Call({}))
       IN  ScopeCall("DatabaseTransaction", r.c,
                     IF r.m_is_active
                     THEN Append(scopes, [m_is_active |-> TRUE]) ELSE scopes)

\* transaction.commit(); and the scope leaves its block
CommitScope ==
    /\ pc = "run" /\ scopes # <<>>
    /\ LET r == commit(Call({}), scopes[Len(scopes)].m_is_active)
           d == DatabaseTransactionDtor(r.c, r.m_is_active)
       IN  ScopeCall("commit", d.c, SubSeq(scopes, 1, Len(scopes) - 1))

\* the scope leaves its block without a commit
CancelScope ==
    /\ pc = "run" /\ scopes # <<>>
    /\ LET d == DatabaseTransactionDtor(Call({}),
                                        scopes[Len(scopes)].m_is_active)
       IN  ScopeCall("~DatabaseTransaction", d.c,
                     SubSeq(scopes, 1, Len(scopes) - 1))

HandleNew == \E h \in HandleSlots : HandleNewAt(h)
HandleById == \E h \in HandleSlots, id \in Ids : HandleByIdAt(h, id)
HandleCreateUnchecked == \E h \in HandleSlots, id \in Ids :
    HandleCreateUncheckedAt(h, id)
HandleCopy == \E h, g \in HandleSlots : HandleCopyAt(h, g)
HandleCopyAssign == \E h, g \in HandleSlots : HandleCopyAssignAt(h, g)
HandleMove == \E h, g \in HandleSlots : HandleMoveAt(h, g)
HandleMoveAssign == \E h, g \in HandleSlots : HandleMoveAssignAt(h, g)
HandleDestroy == \E h \in HandleSlots : HandleDestroyAt(h)

(***************************************************************************)
(* The handle counter.  Besides the Handle variables that the model names, *)
(* the client holds Handles that are known by the counters alone: one is   *)
(* made by copying a Handle and one is destroyed through                   *)
(* HandleAttorney::increment_handle_counter and decrement_handle_counter.  *)
(***************************************************************************)
\* the named Handle variables bound to the object at a
NamedHandles(a) == {h \in HandleSlots : handles[h] = a}

\* a Handle that is not named is copied from a Handle to the object at a
IncrementCounter ==
    \E a \in Addresses :
        /\ pc = "run" /\ objects[a].alive
        /\ objects[a].m_handle_counter >= 1
        /\ MapCall("increment_handle_counter",
                   increment_handle_counter(Call({}), a), handles, 0, 0, a)

\* a Handle that is not named is destroyed; the function is also called on
\* an object that no Handle is bound to
DecrementCounter ==
    \E a \in Addresses :
        /\ pc = "run" /\ objects[a].alive
        /\ \/ objects[a].m_handle_counter = 0
           \/ objects[a].m_handle_counter > Cardinality(NamedHandles(a))
        /\ MapCall("decrement_handle_counter",
                   decrement_handle_counter(Call({}), a), handles, 0, 0, a)

\* h->save() when nothing fails
SaveUnfailing == \E h \in HandleSlots : SaveAt(h, {}, "none")

CounterNext ==
    \/ HandleNew \/ HandleById \/ HandleDestroy
    \/ IncrementCounter \/ DecrementCounter
    \/ SaveUnfailing \/ EnableCaching

SpecCounter == Init /\ [][CounterNext]_vars

\* Handles made, copied, assigned and destroyed, named or not
AssignNext ==
    \/ HandleNew \/ HandleCopy \/ HandleCopyAssign \/ HandleDestroy
    \/ IncrementCounter \/ DecrementCounter
    \/ SaveUnfailing \/ EnableCaching

SpecAssign == Init /\ [][AssignNext]_vars

\* In an operation on an object the engine may fail at the begin and at the
\* commit of the operation's first scope; the cancel that follows succeeds.
ObjectFailSets == FailSets(2)

Save == \E h \in HandleSlots, F \in ObjectFailSets,
           failing \in {"none", "do_save_existing", "do_save_new"} :
    SaveAt(h, F, failing)

Remove == \E h \in HandleSlots, F \in ObjectFailSets,
             failing \in {"none", "do_remove"} :
    RemoveAt(h, F, failing)

HandleNext ==
    \/ HandleNew \/ HandleById \/ HandleCreateUnchecked
    \/ HandleCopy \/ HandleCopyAssign \/ HandleMove \/ HandleMoveAssign
    \/ HandleDestroy

ScopeNext == BeginScope \/ CommitScope \/ CancelScope

Next ==
    \/ HandleNext \/ Save \/ Remove \/ ScopeNext
    \/ EnableCaching \/ DisableCaching

\* the client of the whole interface; its operations are not recorded
Spec == InitWith(FALSE) /\ [][Next]_vars

\* the same client when it never switches caching on
UncachedNext == HandleNext \/ Save \/ Remove \/ ScopeNext

SpecUncached == InitWith(FALSE) /\ [][UncachedNext]_vars

(***************************************************************************)
(* A client with Handle<ExampleB> and Handle<ExampleC> variables on the    *)
(* identity map of ExampleB, which casts between them with handle_cast.    *)
(* ExampleC derives from ExampleB.                                         *)
(***************************************************************************)
\* an object of class dyn is an L
IsA(dyn, L) == dyn = L \/ (dyn = "ExampleC" /\ L = "ExampleB")

\* a cast that does not look at the class of the object
static_cast_to(L, p, dyn) == p

\* dynamic_cast<L*>(p)
dynamic_cast_to(L, p, dyn) == IF IsA(dyn[p], L) THEN p ELSE NULL

\* if (ret.m_pointer) ret.m_pointer->increment_handle_counter();
CountCast(s, p) == IF p # NULL THEN increment_handle_counter(s, p) ELSE s

\* handle_cast<L>(rhs): the state it leaves and ret.m_pointer
handle_cast(s, L, rhs, dyn) ==
    IF rhs.m_pointer = NULL
    THEN [s |-> s, ptr |-> NULL]
    ELSE [s |-> CountCast(s, dynamic_cast_to(L, rhs.m_pointer, dyn)),
          ptr |-> dynamic_cast_to(L, rhs.m_pointer, dyn)]

CastOp(L) == IF L = "ExampleB" THEN "handle_cast<ExampleB>"
             ELSE "handle_cast<ExampleC>"

\* the classes of the objects that are left, the one at address born being
\* new and of class T
TypesAfter(s, born, T) ==
    [a \in Addresses |->
        IF ~s.objects[a].alive THEN "none"
        ELSE IF a = born THEN T
        ELSE dynamic_type[a]]

CastCall(op, s, hs, dyn, h, g, o) ==
    /\ SetConn(s)
    /\ SetMap(s)
    /\ cast_handles' = hs
    /\ dynamic_type' = dyn
    /\ pc' = Outcome(s)
    /\ last' = [op |-> op, exc |-> s.exc, cmds |-> s.cmds, inj |-> s.inj,
                i |-> h, k |-> g, o |-> o, born |-> s.born]
    /\ UNCHANGED <<scopes, tracing, wstate, tags, proper, handles, stmtVars, iterVars>>

\* the Handle that is bound to r.ptr if no exception left the constructor
BoundHandle(s, p, T) ==
    IF Ok(s) /\ p # NULL THEN [m_pointer |-> p, T |-> T] ELSE NoHandle

CastBind(r, s, h, T) ==
    /\ FreshAddress(r)
    /\ CastCall("Handle", s,
                [cast_handles EXCEPT ![h] = BoundHandle(s, r.ptr, T)],
                TypesAfter(s, IF r.s.born THEN r.ptr ELSE NULL, T),
                h, 0, r.ptr)

ProvidedAndCounted(r, h, T) ==
    CastBind(r, IF Ok(r.s) THEN increment_handle_counter(r.s, r.ptr) ELSE r.s,
             h, T)

\* Handle<T> h(dbc);
CastHandleNew ==
    \E h \in CastSlots, T \in Types :
        /\ pc = "run" /\ cast_handles[h] = NoHandle
        /\ ProvidedAndCounted(provide_pointer(Call({})), h, T)

CastReturned(r, L, h, g) ==
    CastCall(CastOp(L), r.s,
             [cast_handles EXCEPT ![h] = BoundHandle(r.s, r.ptr, L)],
             dynamic_type, h, g, r.ptr)

\* Handle<L> h = handle_cast<L>(g);
HandleCast ==
    \E h, g \in CastSlots, L \in Types :
        /\ pc = "run" /\ h # g /\ cast_handles[h] = NoHandle
        /\ CastReturned(handle_cast(Call({}), L, cast_handles[g], dynamic_type),
                        L, h, g)

CastDestroyed(s, hs, h) ==
    CastCall("~Handle", s, hs, TypesAfter(s, NULL, "none"), h, 0,
             cast_handles[h].m_pointer)

\* h leaves its block
CastHandleDestroy ==
    \E h \in CastSlots :
        /\ pc = "run" /\ cast_handles[h] # NoHandle
        /\ CastDestroyed(decrement_handle_counter(Call({}),
                                                  cast_handles[h].m_pointer),
                         [cast_handles EXCEPT ![h] = NoHandle], h)

CastNext == CastHandleNew \/ HandleCast \/ CastHandleDestroy

SpecCast == Init /\ [][CastNext]_vars

(***************************************************************************)
(* A client that holds one Handle variable at a time, reads and writes the *)
(* object's field, and whose operations are recorded.                      *)
(***************************************************************************)
TheHandle == 1

OpenNew == HandleNewAt(TheHandle)

OpenById == \E id \in Ids : HandleByIdAt(TheHandle, id)

Close == HandleDestroyAt(TheHandle)

SaveIt == \E F \in ObjectFailSets,
             failing \in {"none", "do_load", "do_save_existing", "do_save_new"} :
    SaveAt(TheHandle, F, failing)

RemoveIt == \E F \in ObjectFailSets, failing \in {"none", "do_remove"} :
    RemoveAt(TheHandle, F, failing)

SetIt == \E v \in Vals, F \in ObjectFailSets, failing \in {"none", "do_load"} :
    SetXAt(TheHandle, v, F, failing)

GetIt == \E F \in ObjectFailSets, failing \in {"none", "do_load"} :
    GetXAt(TheHandle, F, failing)

GhostifyIt == GhostifyAt(TheHandle)

ObjectNext ==
    \/ OpenNew \/ OpenById \/ Close
    \/ SaveIt \/ RemoveIt \/ SetIt \/ GetIt \/ GhostifyIt
    \/ EnableCaching \/ DisableCaching

SpecObject == Init /\ [][ObjectNext]_vars

\* the same client reading, saving and removing inside transaction scopes of
\* its own, caching off
ScopedNext ==
    \/ OpenNew \/ OpenById \/ Close
    \/ SaveIt \/ RemoveIt \/ GetIt \/ GhostifyIt
    \/ ScopeNext

SpecScoped == Init /\ [][ScopedNext]_vars

\* the same client saving and removing inside transaction scopes of its own
SaveNext ==
    \/ OpenNew \/ OpenById \/ Close
    \/ SaveIt \/ RemoveIt
    \/ EnableCaching \/ DisableCaching
    \/ ScopeNext

SpecSave == Init /\ [][SaveNext]_vars

(***************************************************************************)
(* The same client making the round trips of the tests in one step each:   *)
(* save, ghostify and read again; save, let go of the Handle, get a Handle *)
(* by id and read.                                                         *)
(***************************************************************************)
GhostifyIfOk(s, a) == IF Ok(s) THEN ghostify(s, a) ELSE s

\* h->x(); after the calls before it
GetXIfOk(s, a) == IF Ok(s) THEN load(s, a, "none") ELSE s

\* h->save(); h->ghostify(); h->x();
save_ghostify_x(s, a) ==
    GetXIfOk(GhostifyIfOk(save(s, a, "none"), a), a)

SaveGhostifyGet ==
    /\ pc = "run" /\ handles[TheHandle] # NULL
    /\ MapCall("save_ghostify_x", save_ghostify_x(Call({}), handles[TheHandle]),
               handles, TheHandle, 0, handles[TheHandle])

\* Handle<T> h2(dbc, id); h2->x(); given what get_pointer returned
BoundAndRead(r) ==
    IF Ok(r.s)
    THEN [s |-> GetXIfOk(increment_handle_counter(r.s, r.ptr), r.ptr),
          ptr |-> r.ptr]
    ELSE r

\* the Handle of the object at a is destroyed and a Handle made by id
Reopened(s, a, id) ==
    IF Ok(s)
    THEN BoundAndRead(provide_pointer_by_id(
             [decrement_handle_counter(s, a) EXCEPT !.born = FALSE], id))
    ELSE [s |-> s, ptr |-> a]

\* s is the state after h->save() on the object at a
ReopenedAfterSave(s, a) == Reopened(s, a, s.objects[a].m_id)

\* h->save(); id = h->id(); the Handle leaves its block;
\* Handle<T> h2(dbc, id); h2->x();
save_drop_reopen_x(s, a) == ReopenedAfterSave(save(s, a, "none"), a)

ReopenedCall(r) ==
    MapCall("save_drop_reopen_x", r.s,
            [handles EXCEPT ![TheHandle] = r.ptr], TheHandle, 0, r.ptr)

SaveDropReopenGet ==
    /\ pc = "run" /\ handles[TheHandle] # NULL
    /\ ~m_is_caching
    /\ ReopenedCall(save_drop_reopen_x(Call({}), handles[TheHandle]))

RoundTripNext == ObjectNext \/ SaveGhostifyGet \/ SaveDropReopenGet

SpecRoundTrip == Init /\ [][RoundTripNext]_vars

(***************************************************************************)
(* Properties                                                              *)
(***************************************************************************)
\* the objects held in by_cache_key
Cached == {a \in Addresses : \E k \in CacheKeys : m_cache_key_map[k] = a}

\* the live Handles bound to object a
BoundTo(a) == {h \in HandleSlots : handles[h] = a}

\* The model places an object at the address numbered as its cache key.
\* That is sound as long as every live object is in by_cache_key under its
\* own key, every Handle refers to a live object, and no assertion fails.
AddressesSound ==
    /\ pc # "terminated"
    /\ \A a \in Addresses :
         objects[a].alive =>
            /\ m_cache_key_map[a] = a
            /\ objects[a].m_cache_key = a
    /\ \A k \in CacheKeys : m_cache_key_map[k] # NULL => objects[k].alive
    /\ \A k \in Ids : m_id_map[k] # NULL => objects[m_id_map[k]].alive
    /\ \A h \in HandleSlots : handles[h] # NULL => objects[handles[h]].alive
    /\ LET r == provide_cache_key(Call({}))
       IN  Ok(r.s) => m_cache_key_map[r.key] = NULL

\* C1: no two distinct objects held in by_cache_key have the same id set.
C1_OneObjectPerId ==
    \A a, b \in Cached :
        (a # b /\ has_id(objects[a]) /\ has_id(objects[b]))
            => objects[a].m_id # objects[b].m_id

\* two objects contended for id 1: the one saved later has it, the other was
\* saved before and has no id any more
C1_Witness ==
    \E a, b \in Cached :
        /\ a # b
        /\ objects[a].m_id = 1 /\ m_id_map[1] = a
        /\ objects[a].m_loading_status = "loaded"
        /\ ~has_id(objects[b]) /\ objects[b].m_loading_status = "loaded"
        /\ RowPresent(1) /\ db.seq = 1

\* C2: every cached object's handle count equals the number of live non-null
\* Handles bound to it, whatever constructions, copies, moves, assignments
\* and destructions of Handles came before.
C2_CountIsLiveHandles ==
    \A a \in Cached : objects[a].m_handle_counter = Cardinality(BoundTo(a))

\* C3: while caching has been off throughout, every object in by_cache_key
\* has at least one live Handle bound to it (an object whose last Handle was
\* destroyed or rebound is in neither index any more).
C3_CachedOnlyWhileHeld ==
    \A a \in Addresses :
        ((\E k \in CacheKeys : m_cache_key_map[k] = a)
            \/ (\E k \in Ids : m_id_map[k] = a))
        => BoundTo(a) # {}

\* the indexes and the object at address a are as they were, but for the
\* object's handle counter, which is n
OnlyCounterChanged(a, n) ==
    /\ m_cache_key_map' = m_cache_key_map
    /\ m_id_map' = m_id_map
    /\ objects' = [objects EXCEPT ![a].m_handle_counter = n]

\* C4: with caching enabled, an object that has an id stays in by_cache_key
\* and in by_id when its handle count drops to zero, and a Handle(conn, id)
\* made while it is there binds to that very object: no object is
\* constructed, and cache key, loading status and field are as they were.  An
\* object without id is uncached when its handle count drops to zero.
C4_CachedOrphanIsReused ==
    [][ \A a \in Addresses :
          /\ (last'.op = "~Handle" /\ last'.o = a /\ m_is_caching
                  /\ objects[a].m_handle_counter = 1 /\ has_id(objects[a]))
              => /\ OnlyCounterChanged(a, 0)
                 /\ m_cache_key_map'[objects[a].m_cache_key] = a
                 /\ m_id_map'[objects[a].m_id] = a
          /\ (last'.op = "Handle_id" /\ m_is_caching
                  /\ objects[a].alive /\ has_id(objects[a])
                  /\ last'.k = objects[a].m_id
                  /\ objects[a].m_handle_counter = 0)
              => /\ last'.exc = "none" /\ ~last'.born
                 /\ handles'[TheHandle] = a
                 /\ OnlyCounterChanged(a, 1)
          /\ (last'.op = "~Handle" /\ last'.o = a /\ m_is_caching
                  /\ objects[a].m_handle_counter = 1 /\ ~has_id(objects[a]))
              => /\ ~objects'[a].alive
                 /\ m_cache_key_map'[objects[a].m_cache_key] = NULL
                 /\ \A k \in Ids : m_id_map'[k] # a
      ]_vars

\* a Handle made by id got the cached object, loaded and with the field as
\* it was set, where a new object would be a ghost with field 0
C4_Witness ==
    /\ last.op = "Handle_id" /\ last.exc = "none" /\ ~last.born
    /\ m_is_caching
    /\ handles[TheHandle] = last.o
    /\ objects[last.o].m_loading_status = "loaded"
    /\ objects[last.o].m_x = 1
    /\ objects[last.o].m_handle_counter = 1

\* C5: disable_caching() while caching is on removes from both indexes
\* exactly the objects whose handle count is 0, leaves the others as they
\* are, and clears the caching flag; while caching is off it changes nothing.
C5_DisableCachingEvictsOrphans ==
    [][ last'.op = "disable_caching" =>
          IF m_is_caching
          THEN /\ ~m_is_caching'
               /\ \A a \in Addresses : objects[a].alive =>
                    IF objects[a].m_handle_counter = 0
                    THEN /\ ~objects'[a].alive
                         /\ m_cache_key_map'[a] = NULL
                         /\ \A k \in Ids : m_id_map'[k] # a
                    ELSE /\ objects'[a] = objects[a]
                         /\ m_cache_key_map'[a] = m_cache_key_map[a]
                         /\ \A k \in Ids : m_id_map[k] = a => m_id_map'[k] = a
          ELSE UNCHANGED mapVars
      ]_vars

\* C6: disable_caching() terminates from every reachable state of the map.
C6_DisableCachingTerminates ==
    last.op = "disable_caching" => pc = "run"

\* C10: after save() has succeeded on an object that had no id, the object's
\* id is the prospective key computed before the insert, by_id maps that id
\* to the object, the object is in by_cache_key under its unchanged cache
\* key, and its loading status is loaded.
C10_SaveNewAssignsProspectiveKey ==
    [][ \A a \in Addresses :
          (last'.op = "save" /\ last'.exc = "none" /\ last'.o = a
                /\ ~has_id(objects[a]))
            => /\ objects'[a].alive
               /\ objects'[a].m_id = next_auto_key(Call({})).key
               /\ m_id_map'[objects'[a].m_id] = a
               /\ objects'[a].m_cache_key = objects[a].m_cache_key
               /\ m_cache_key_map'[objects[a].m_cache_key] = a
               /\ objects'[a].m_loading_status = "loaded"
      ]_vars

\* a new object was saved under an id that a cached object of a cancelled
\* save still held: the new object has the id, the old one has none
C10_Witness ==
    /\ last.op = "save" /\ last.exc = "none"
    /\ objects[last.o].m_id = 1 /\ m_id_map[1] = last.o
    /\ \E b \in Cached :
         /\ b # last.o
         /\ ~has_id(objects[b]) /\ objects[b].m_loading_status = "loaded"
    /\ RowPresent(1) /\ db.seq = 1

\* save() of the object at a, which had no id, failed in do_save_new() or
\* in the commit; the allocated id is last'.k
SaveNewFailed(a) ==
    /\ last'.op = "save" /\ last'.o = a /\ ~has_id(objects[a])
    /\ \/ last'.exc = "UnresolvedTransactionException"
       \/ last'.exc = "SQLiteException" /\ ~last'.inj

\* what holds of the object, the indexes and the table after such a failure,
\* whatever the loading status
SaveNewFailedKeepsIdentity(a) ==
    /\ ~has_id(objects'[a])
    /\ objects'[a].alive
    /\ objects'[a].m_cache_key = objects[a].m_cache_key
    /\ m_cache_key_map'[objects[a].m_cache_key] = a
    /\ db'.rows[last'.k] = NoRow

TryBlockFailed(op, a) ==
    /\ last'.op = op /\ last'.o = a
    /\ \/ last'.exc = "UnresolvedTransactionException"
       \/ last'.exc = "SQLiteException" /\ ~last'.inj

\* the object at a is a ghost and has kept id, cache key, handle count and
\* its entries in both indexes; the connection is as before the call
GhostifiedAndRolledBack(a) ==
    /\ objects' = [objects EXCEPT ![a].m_loading_status = "ghost",
                                  ![a].m_x = objects'[a].m_x]
    /\ m_id_map' = m_id_map /\ m_id_map[objects[a].m_id] = a
    /\ m_cache_key_map' = m_cache_key_map
    /\ m_cache_key_map[objects[a].m_cache_key] = a
    /\ UNCHANGED connVars

\* C12: when save() on an object that has an id fails because
\* do_save_existing() or the commit throws (or do_load() or the commit of the
\* load() that save() makes first), the object is a ghost, keeps its id and
\* its entries in by_id and by_cache_key, the scope save() opened is cancelled
\* so that table and nesting level are as before, and the exception is
\* rethrown.
C12_FailedSaveExistingGhostifies ==
    [][ \A a \in Addresses :
          (TryBlockFailed("save", a) /\ has_id(objects[a]))
            => GhostifiedAndRolledBack(a)
      ]_vars

\* the commit of a save() failed on a loaded object whose field differed
\* from its row: the object is a ghost with its id and the row is as it was
C12_Witness ==
    /\ last.op = "save" /\ last.exc = "UnresolvedTransactionException"
    /\ objects[last.o].m_id = 1 /\ m_id_map[1] = last.o
    /\ objects[last.o].m_loading_status = "ghost"
    /\ objects[last.o].m_x = 1 /\ db.rows[1] = 0
    /\ m_transaction_nesting_level = 0

\* the enclosing scope was cancelled and took with it the row of the object
\* at a, which had been saved as a new object inside the scope
SaveRolledBackByScope(a) ==
    /\ last'.op = "~DatabaseTransaction" /\ last'.exc = "none"
    /\ objects[a].alive /\ has_id(objects[a])
    /\ m_id_map[objects[a].m_id] = a
    /\ objects[a].m_loading_status = "loaded"
    /\ db.rows[objects[a].m_id] # NoRow
    /\ db'.rows[objects[a].m_id] = NoRow

\* C13 as stated: when a new object was saved inside an enclosing scope and
\* the scope is then cancelled, the table has no row for the object and the
\* object is left without id and in ghost state, in by_cache_key under its
\* cache key.
C13_RolledBackSaveClearsId ==
    [][ \A a \in Addresses :
          SaveRolledBackByScope(a) =>
            /\ ~has_id(objects'[a])
            /\ objects'[a].m_loading_status = "ghost"
            /\ m_cache_key_map'[objects[a].m_cache_key] = a
      ]_vars

\* the object at a has an id for which the table has no row
HasResidualId(a) ==
    /\ objects[a].alive /\ has_id(objects[a])
    /\ m_id_map[objects[a].m_id] = a
    /\ objects[a].m_loading_status = "loaded"
    /\ db.rows[objects[a].m_id] = NoRow

\* C13 as amended: when a new object was saved inside an enclosing scope and
\* the scope is then cancelled, the table has no row for the object, while
\* the object and both indexes are untouched: the object keeps its id, its
\* by_id entry, its loaded state and its cache key.  A later save() of that
\* object that succeeds takes the branch for an object with id: it inserts
\* no row and leaves object and indexes as they are.
C13_RolledBackSaveLeavesResidualId ==
    [][ \A a \in Addresses :
          /\ SaveRolledBackByScope(a) =>
                /\ objects' = objects
                /\ m_id_map' = m_id_map
                /\ m_cache_key_map' = m_cache_key_map
                /\ m_transaction_nesting_level' =
                       m_transaction_nesting_level - 1
          /\ (HasResidualId(a) /\ last'.op = "save" /\ last'.o = a
                    /\ last'.exc = "none")
                => /\ UNCHANGED connVars
                   /\ objects' = objects
                   /\ m_id_map' = m_id_map
                   /\ m_cache_key_map' = m_cache_key_map
      ]_vars

\* a later save() succeeded on an object whose save was rolled back by the
\* enclosing scope: it still has id 1 and the table is empty
C13_Witness ==
    /\ last.op = "save" /\ last.exc = "none"
    /\ objects[last.o].m_id = 1 /\ m_id_map[1] = last.o
    /\ objects[last.o].m_loading_status = "loaded"
    /\ db.seq = 0 /\ ~RowPresent(1)
    /\ scopes = <<>>

\* C14: after remove() has succeeded on an object with id k, the table has
\* no row k and is otherwise as before, by_id has no entry for k, the object
\* has no id, and it is still in by_cache_key under its cache key with handle
\* count, loading status and field unchanged; the Handles are as they were.
C14_RemoveClearsIdKeepsObject ==
    [][ \A a \in Addresses :
          (last'.op = "remove" /\ last'.exc = "none" /\ last'.o = a
                /\ has_id(objects[a]))
            => /\ db' = [db EXCEPT !.rows[objects[a].m_id] = NoRow]
               /\ m_id_map' = [m_id_map EXCEPT ![objects[a].m_id] = NULL]
               /\ objects' = [objects EXCEPT ![a].m_id = NULL]
               /\ objects'[a].alive
               /\ m_cache_key_map' = m_cache_key_map
               /\ m_cache_key_map[objects[a].m_cache_key] = a
               /\ handles' = handles /\ handles[TheHandle] = a
      ]_vars

\* a loaded object with field 1 was removed: the row is gone, the object has
\* no id and is otherwise as it was, bound to its Handle
C14_Witness ==
    /\ last.op = "remove" /\ last.exc = "none"
    /\ handles[TheHandle] = last.o
    /\ objects[last.o].alive /\ ~has_id(objects[last.o])
    /\ objects[last.o].m_loading_status = "loaded"
    /\ objects[last.o].m_x = 1
    /\ objects[last.o].m_handle_counter = 1
    /\ db.seq = 1 /\ ~RowPresent(1)
    /\ m_id_map[1] = NULL

\* C15: Handle(conn, id) for an id that has no row raises BadIdentifier, also
\* when by_id holds an object under that id; no object is constructed, and
\* both indexes, every object with its handle count, last_cache_key, the
\* Handles and the connection are as before.
C15_NoRowIsBadIdentifier ==
    [][ (last'.op = "Handle_id" /\ db.rows[last'.k] = NoRow)
            => /\ last'.exc = "BadIdentifier"
               /\ ~last'.born
               /\ UNCHANGED mapVars
               /\ UNCHANGED connVars
      ]_vars

\* Handle(conn, 1) was refused although by_id holds an object with id 1,
\* whose row went with the scope it was saved in
C15_Witness ==
    /\ last.op = "Handle_id" /\ last.exc = "BadIdentifier" /\ last.k = 1
    /\ ~RowPresent(1)
    /\ m_id_map[1] # NULL
    /\ objects[m_id_map[1]].m_id = 1
    /\ objects[m_id_map[1]].m_handle_counter = 0
    /\ handles[TheHandle] = NULL

\* C16: load(), called by a getter, on an object that is a ghost and has an
\* id opens one transaction scope, calls do_load() once and commits, and when
\* nothing fails leaves the object loaded with the field read from its row;
\* on an object that is loaded or has no id it does nothing: no command is
\* issued, do_load() is not called, and object, indexes and connection are
\* unchanged.
C16_LoadOnlyGhostWithId ==
    [][ \A a \in Addresses :
          (last'.op = "x" /\ last'.o = a) =>
            IF objects[a].m_loading_status = "ghost" /\ has_id(objects[a])
            THEN last'.exc = "none" =>
                    /\ last'.cmds = <<"begin", "select", "end">>
                    /\ objects' = [objects EXCEPT
                            ![a].m_loading_status = "loaded",
                            ![a].m_x = db.rows[objects[a].m_id]]
                    /\ UNCHANGED connVars
            ELSE /\ last'.exc = "none" /\ last'.cmds = <<>>
                 /\ UNCHANGED mapVars
                 /\ UNCHANGED connVars
      ]_vars

\* a getter loaded a ghost from its row: one scope, one do_load, the object
\* is loaded and has the row's value 1
C16_Witness ==
    /\ last.op = "x" /\ last.exc = "none"
    /\ last.cmds = <<"begin", "select", "end">>
    /\ objects[last.o].m_loading_status = "loaded"
    /\ has_id(objects[last.o])
    /\ objects[last.o].m_x = 1 /\ db.rows[objects[last.o].m_id] = 1

\* C17: when do_load() or the commit after it throws during load(), called
\* by a getter or a setter, the object is a ghost that has kept its id and
\* its entries in both indexes, the scope load() opened is cancelled so that
\* the connection is as before, and the exception is rethrown; a load() on a
\* ghost with id calls do_load() whenever its scope could be opened.
C17_FailedLoadLeavesGhost ==
    [][ \A a \in Addresses :
          /\ ((TryBlockFailed("x", a) \/ TryBlockFailed("set_x", a))
                    /\ has_id(objects[a]))
                => /\ objects[a].m_loading_status = "ghost"
                   /\ GhostifiedAndRolledBack(a)
                   /\ last'.cmds[Len(last'.cmds)] = "rollback"
          /\ (last'.op \in {"x", "set_x"} /\ last'.o = a
                    /\ objects[a].m_loading_status = "ghost"
                    /\ has_id(objects[a]))
                => IF last'.exc = "SQLiteException" /\ last'.inj
                   THEN last'.cmds = <<"begin">>
                   ELSE {i \in 1 .. Len(last'.cmds) :
                            last'.cmds[i] = "select"} = {2}
      ]_vars

\* do_load() threw in a getter: the scope was rolled back and the object is
\* a ghost with its id, in by_id
C17_Witness ==
    /\ last.op = "x" /\ last.exc = "SQLiteException" /\ ~last.inj
    /\ last.cmds = <<"begin", "select", "rollback">>
    /\ objects[last.o].m_loading_status = "ghost"
    /\ has_id(objects[last.o])
    /\ m_id_map[objects[last.o].m_id] = last.o
    /\ m_transaction_nesting_level = 0 /\ savepoints = <<>>

\* what a getter of the object at a returns: the field, or the row's value
\* when the object is a ghost with id, which the getter loads first
Observed(a) ==
    IF objects[a].m_loading_status = "ghost" /\ has_id(objects[a])
    THEN db.rows[objects[a].m_id]
    ELSE objects[a].m_x

\* the id of the object at a once save() has succeeded
SavedId(a) ==
    IF has_id(objects[a]) THEN objects[a].m_id ELSE db.seq + 1

\* C18: save() followed by ghostify() followed by a getter yields the field
\* value v the object had, leaves the object loaded with the id save() gave
\* or kept, and v is in the row; with caching off, save(), the destruction
\* of the only Handle and Handle(conn, id) yield a newly constructed object
\* with that id whose getter returns v.
C18_SaveGhostifyLoadRoundTrip ==
    [][ \A a \in Addresses :
          /\ (last'.op = "save_ghostify_x" /\ last'.o = a
                    /\ last'.exc = "none")
                => /\ objects'[a].m_x = Observed(a)
                   /\ objects'[a].m_loading_status = "loaded"
                   /\ objects'[a].m_id = SavedId(a)
                   /\ db'.rows[SavedId(a)] = Observed(a)
                   /\ "select" \in {last'.cmds[i] : i \in 1 .. Len(last'.cmds)}
          /\ (last'.op = "save_drop_reopen_x" /\ handles[TheHandle] = a
                    /\ last'.exc = "none")
                => /\ last'.born
                   /\ handles'[TheHandle] = last'.o
                   /\ objects'[last'.o].m_x = Observed(a)
                   /\ objects'[last'.o].m_loading_status = "loaded"
                   /\ objects'[last'.o].m_id = SavedId(a)
                   /\ objects'[last'.o].m_handle_counter = 1
      ]_vars

\* a new object with field 1 was saved and its Handle dropped; the object
\* made for Handle(conn, 1) was loaded from the row and has field 1
C18_Witness ==
    /\ last.op = "save_drop_reopen_x" /\ last.exc = "none" /\ last.born
    /\ handles[TheHandle] = last.o
    /\ objects[last.o].m_x = 1 /\ objects[last.o].m_id = 1
    /\ objects[last.o].m_loading_status = "loaded"
    /\ db.seq = 1 /\ db.rows[1] = 1

\* the live SQLStatement objects that hold the wrapper at w
HoldersOf(w) == {i \in StatementSlots : statements[i] = w}

\* C19: every wrapper provide_sql_statement returns is locked on return; a
\* wrapper is locked exactly while one SQLStatement holds it, so no two live
\* SQLStatement objects hold the same wrapper and two of them for the same
\* text hold distinct wrappers; a wrapper has the text it was asked for; and
\* when a SQLStatement is destroyed its wrapper is reset, has no bindings
\* and is unlocked (or is destroyed with it).
C19_WrapperHeldByOneStatement ==
    /\ \A w \in WrapperAddresses :
         /\ Cardinality(HoldersOf(w)) <= 1
         /\ wrappers[w].m_is_locked <=> HoldersOf(w) # {}
         /\ HoldersOf(w) # {} => wrappers[w].alive
    /\ \A txt \in Texts : m_statement_cache[txt] # NULL =>
         /\ wrappers[m_statement_cache[txt]].alive
         /\ wrappers[m_statement_cache[txt]].text = txt
    /\ last.op = "SQLStatement" =>
         /\ statements[last.i] = last.o
         /\ wrappers[last.o].m_is_locked
         /\ ~wrappers[last.o].stepped /\ ~wrappers[last.o].bound
    /\ last.op = "~SQLStatement" =>
         /\ statements[last.i] = NULL
         /\ ~wrappers[last.o].m_is_locked
         /\ ~wrappers[last.o].stepped /\ ~wrappers[last.o].bound

\* two live SQLStatement objects for the same text hold two wrappers, both
\* locked, one of them the cached one, which had been used and released
\* before
C19_Witness ==
    \E i, j \in StatementSlots :
        /\ i # j
        /\ statements[i] # NULL /\ statements[j] # NULL
        /\ statements[i] # statements[j]
        /\ wrappers[statements[i]].text = wrappers[statements[j]].text
        /\ wrappers[statements[i]].m_is_locked
        /\ wrappers[statements[j]].m_is_locked
        /\ last.op = "SQLStatement" /\ ~last.born /\ last.i = i

\* handle_cast<L> was called on a Handle whose object is an L
CastOfAnL(L) ==
    /\ last'.op = CastOp(L)
    /\ cast_handles[last'.k].m_pointer # NULL
    /\ IsA(dynamic_type[cast_handles[last'.k].m_pointer], L)

\* handle_cast<L> was called on a null Handle or on one whose object is not
\* an L; it returned a null Handle and no handle count changed
NullCast(L) ==
    (last'.op = CastOp(L) /\ ~CastOfAnL(L)) =>
        /\ last'.exc = "none"
        /\ last'.o = NULL
        /\ cast_handles' = cast_handles
        /\ objects' = objects

\* the Handle returned is bound to the object of the argument, whose handle
\* count is one more than before
CastSharesObject(L) ==
    /\ last'.exc = "none"
    /\ cast_handles' =
           [cast_handles EXCEPT ![last'.i] =
               [m_pointer |-> cast_handles[last'.k].m_pointer, T |-> L]]
    /\ objects' = [objects EXCEPT
           ![cast_handles[last'.k].m_pointer].m_handle_counter = @ + 1]

\* a Handle<T> is bound only to an object that is a T
HandlesWellTyped ==
    \A h \in CastSlots : cast_handles[h].m_pointer # NULL =>
        /\ objects[cast_handles[h].m_pointer].alive
        /\ IsA(dynamic_type[cast_handles[h].m_pointer], cast_handles[h].T)

RowId(st, x) == IF x = 0 THEN NULL ELSE st.rows[x][1].val

\* the row after the one st is at, 0 after the last
NextRow(st) == IF st.row < Len(st.rows) THEN st.row + 1 ELSE 0

\* the iterator at slot i holds the object of the row its statement is at,
\* and none if the statement is at no row
InSync(i) ==
    /\ iterators[i].m_impl # NULL
    /\ iterators[i].m_maybe_object =
           RowId(cursors[iterators[i].m_impl],
                 cursors[iterators[i].m_impl].row)

\* ++it or it++ ran on an iterator that has a statement and raised nothing
Incremented ==
    /\ last'.op \in {"++it", "it++"} /\ last'.exc = "none"
    /\ iterators[last'.i].m_impl # NULL

\* C21: a TableIterator constructed over a query with n result rows holds the
\* object of the first row, and is null when n = 0; each increment of an
\* iterator that holds the object of the row its statement is at moves it to
\* the next row in result order, after the last row it becomes null, and an
\* increment of an iterator that has become null moves it to the first row
\* when n >= 1 and leaves it null when n = 0; an iterator made by the default
\* constructor stays null.
C21_IteratorVisitsRowsInOrder ==
    [][/\ (last'.op = "TableIterator" /\ last'.exc = "none") =>
            /\ iterators'[last'.i].alive
            /\ cursors'[iterators'[last'.i].m_impl].row =
                  IF cursors'[iterators'[last'.i].m_impl].rows = <<>>
                  THEN 0 ELSE 1
            /\ iterators'[last'.i].m_maybe_object =
                  RowId(cursors'[iterators'[last'.i].m_impl],
                        cursors'[iterators'[last'.i].m_impl].row)
       /\ (Incremented /\ InSync(last'.i)) =>
            /\ cursors'[iterators[last'.i].m_impl].row =
                  NextRow(cursors[iterators[last'.i].m_impl])
            /\ cursors'[iterators[last'.i].m_impl].rows =
                  cursors[iterators[last'.i].m_impl].rows
            /\ iterators'[last'.i].m_impl = iterators[last'.i].m_impl
            /\ iterators'[last'.i].m_maybe_object =
                  RowId(cursors[iterators[last'.i].m_impl],
                        NextRow(cursors[iterators[last'.i].m_impl]))
       /\ (last'.op \in {"++it", "it++"}
               /\ iterators[last'.i].m_impl = NULL) =>
            /\ iterators'[last'.i] = iterators[last'.i]
            /\ iterators'[last'.i].m_maybe_object = NULL]_vars

\* an iterator over three rows that had become null was incremented and
\* holds the object of the first row again
C21_Witness ==
    /\ last.op = "++it" /\ last.exc = "none" /\ last.was = NULL
    /\ iterators[last.i].m_impl # NULL
    /\ Len(cursors[iterators[last.i].m_impl].rows) = 3
    /\ cursors[iterators[last.i].m_impl].row = 1
    /\ iterators[last.i].m_maybe_object = 3

\* C22: a copy of a TableIterator holds the same object and shares the
\* statement; an increment of one iterator moves it to the row after the one
\* the shared statement is at, whichever copy fetched that row, and leaves
\* every other iterator holding what it held; the copy that postfix ++
\* returns holds the object the iterator held before the increment.
C22_CopiesShareOneCursor ==
    [][/\ last'.op = "copy" =>
            /\ iterators'[last'.k] = iterators[last'.i]
            /\ \A j \in IteratorSlots \ {last'.k} :
                   iterators'[j] = iterators[j]
            /\ cursors' = cursors
       /\ Incremented =>
            /\ iterators'[last'.i].m_impl = iterators[last'.i].m_impl
            /\ iterators'[last'.i].m_maybe_object =
                  RowId(cursors[iterators[last'.i].m_impl],
                        NextRow(cursors[iterators[last'.i].m_impl]))
            /\ cursors'[iterators[last'.i].m_impl].row =
                  NextRow(cursors[iterators[last'.i].m_impl])
            /\ \A j \in IteratorSlots \ {last'.i, last'.k} :
                   iterators'[j] = iterators[j]
       /\ (last'.op = "it++" /\ last'.exc = "none") =>
            iterators'[last'.k] = iterators[last'.i]]_vars

\* of two copies at the first of three rows one was incremented to the
\* second row; then the other, which still held the first, was incremented
\* and holds the third
C22_Witness ==
    /\ last.op = "++it" /\ last.exc = "none"
    /\ iterators[last.i].m_impl # NULL
    /\ Len(cursors[iterators[last.i].m_impl].rows) = 3
    /\ last.was = RowId(cursors[iterators[last.i].m_impl], 1)
    /\ iterators[last.i].m_maybe_object =
           RowId(cursors[iterators[last.i].m_impl], 3)
    /\ \E j \in IteratorSlots \ {last.i} :
           /\ iterators[j].alive
           /\ iterators[j].m_impl = iterators[last.i].m_impl
           /\ iterators[j].m_maybe_object =
                  RowId(cursors[iterators[last.i].m_impl], 2)

\* both iterators are null
BothNull(a, b) == a.m_maybe_object = NULL /\ b.m_maybe_object = NULL

\* C23: a == b is true if and only if a and b are both null, and a != b is
\* its negation, for every two TableIterators, a and b being the same one
\* included.
C23_EqualIffBothNull ==
    /\ \A i, j \in IteratorSlots :
          (iterators[i].alive /\ iterators[j].alive) =>
             /\ equal(iterators[i], iterators[j])
                    <=> BothNull(iterators[i], iterators[j])
             /\ not_equal(iterators[i], iterators[j])
                    <=> ~equal(iterators[i], iterators[j])
    /\ last.op = "==" =>
          last.ret <=> BothNull(iterators[last.i], iterators[last.k])

\* two iterators that hold the same object were compared and are not equal
C23_Witness ==
    /\ last.op = "==" /\ ~last.ret /\ last.i # last.k
    /\ iterators[last.i].m_maybe_object # NULL
    /\ iterators[last.i].m_maybe_object = iterators[last.k].m_maybe_object

\* save() ran on the object at a, which had an id, and returned
SavedExisting(a) ==
    /\ last'.op = "save" /\ last'.o = a /\ last'.exc = "none"
    /\ has_id(objects[a])

\* the operation read the object's row
Reloaded == \E n \in 1 .. Len(last'.cmds) : last'.cmds[n] = "select"

\* C27: a save() that returns on an object with an id in ghost state has
\* read the row first and then written it back: the object's field has the
\* row's value, the table is as before and the object is loaded; on a loaded
\* object it reads nothing, leaves the object as it is and writes the
\* object's field to its row (an UPDATE: it changes nothing when the table
\* has no row for the id).
C27_SaveReloadsGhostFirst ==
    [][ \A a \in Addresses :
          SavedExisting(a) =>
            IF objects[a].m_loading_status = "ghost"
            THEN /\ Reloaded
                 /\ RowPresent(objects[a].m_id)
                 /\ objects' = [objects EXCEPT
                                  ![a].m_x = db.rows[objects[a].m_id],
                                  ![a].m_loading_status = "loaded"]
                 /\ db' = db
            ELSE /\ ~Reloaded
                 /\ objects[a].m_loading_status = "loaded"
                 /\ objects' = objects
                 /\ db' = IF RowPresent(objects[a].m_id)
                          THEN [db EXCEPT !.rows[objects[a].m_id] =
                                            objects[a].m_x]
                          ELSE db
      ]_vars

\* a save() that read the row returned: the object is loaded with the value
\* of its row, 0, and not with the 1 that could have been set before
C27_Witness ==
    /\ last.op = "save" /\ last.exc = "none"
    /\ db.rows[1] = 0 /\ db.seq = 1
    /\ \E n \in 1 .. Len(last.cmds) : last.cmds[n] = "select"
    /\ objects[last.o].m_loading_status = "loaded"
    /\ objects[last.o].m_id = 1
    /\ objects[last.o].m_x = db.rows[1]

\* C28: remove() on an object without id returns without a command to the
\* engine and changes nothing; when do_remove() or the commit throws in
\* remove() on an object with id, the object is a ghost that has kept its id
\* and its entries in by_id and by_cache_key, the scope of remove() is
\* cancelled so that table (with the object's row) and nesting level are as
\* before, and the exception is rethrown.
C28_RemoveWithoutIdOrFailing ==
    [][ \A a \in Addresses :
          /\ (last'.op = "remove" /\ last'.o = a /\ ~has_id(objects[a]))
               => /\ last'.exc = "none" /\ last'.cmds = <<>>
                  /\ UNCHANGED <<connVars, mapVars>>
          /\ (TryBlockFailed("remove", a) /\ has_id(objects[a]))
               => /\ GhostifiedAndRolledBack(a)
                  /\ handles' = handles
      ]_vars

\* the commit of a remove() inside a scope failed: the object is a ghost
\* with its id, in by_id, and its row is in the table
C28_Witness ==
    /\ last.op = "remove" /\ last.exc = "UnresolvedTransactionException"
    /\ objects[last.o].m_id = 1 /\ m_id_map[1] = last.o
    /\ m_cache_key_map[objects[last.o].m_cache_key] = last.o
    /\ objects[last.o].m_loading_status = "ghost"
    /\ RowPresent(1)
    /\ m_transaction_nesting_level = 1

\* C29: between operations by_id is a view of by_cache_key: every object in
\* by_id is in by_cache_key, an object is in by_id under k only if its id is
\* k, and every object in by_cache_key whose id is k is in by_id under k.
C29_IndexConsistency ==
    /\ \A k \in Ids :
         m_id_map[k] # NULL =>
           /\ \E c \in CacheKeys : m_cache_key_map[c] = m_id_map[k]
           /\ objects[m_id_map[k]].m_id = k
    /\ \A c \in CacheKeys :
         (m_cache_key_map[c] # NULL /\ has_id(objects[m_cache_key_map[c]]))
           => m_id_map[objects[m_cache_key_map[c]].m_id] = m_cache_key_map[c]

\* two objects are cached, one with an id and in by_id, one without
C29_Witness ==
    /\ \E k \in Ids : m_id_map[k] # NULL
    /\ \E c \in CacheKeys :
         m_cache_key_map[c] # NULL /\ ~has_id(objects[m_cache_key_map[c]])

\* save() registered the id k for the object at a, which had none, and
\* returned
Registered(a, k) ==
    /\ last'.op = "save" /\ last'.o = a /\ last'.exc = "none"
    /\ ~has_id(objects[a]) /\ last'.k = k

\* C30: when register_id(cache_key, id) finds another, stale object in by_id
\* under id, afterwards by_id maps id to the object under cache_key, the
\* stale object has no id and is not in by_id, and is in by_cache_key under
\* its own cache key with handle count and fields as before; without a
\* collision the entry of by_id for id is all that is added.
C30_RegisterIdReplacesStale ==
    [][ \A a \in Addresses, k \in Ids :
          Registered(a, k) =>
            /\ m_cache_key_map' = m_cache_key_map
            /\ m_cache_key_map[objects[a].m_cache_key] = a
            /\ m_id_map' = [m_id_map EXCEPT ![k] = a]
            /\ \A b \in Addresses \ {a} :
                 objects'[b] = IF m_id_map[k] = b
                               THEN [objects[b] EXCEPT !.m_id = NULL]
                               ELSE objects[b]
            /\ m_id_map[k] # NULL =>
                 /\ m_id_map[k] # a
                 /\ objects[m_id_map[k]].alive
                 /\ m_cache_key_map[objects[m_id_map[k]].m_cache_key]
                      = m_id_map[k]
      ]_vars

\* a save() registered id 1 for its object while another cached object, once
\* saved under 1 in a scope that was cancelled, is left without id
C30_Witness ==
    /\ last.op = "save" /\ last.exc = "none" /\ last.k = 1
    /\ m_id_map[1] = last.o /\ objects[last.o].m_id = 1
    /\ \E b \in Addresses \ {last.o} :
         /\ objects[b].alive /\ ~has_id(objects[b])
         /\ objects[b].m_loading_status = "loaded"
         /\ m_cache_key_map[objects[b].m_cache_key] = b

\* the keys of by_cache_key
InUse == {k \in DOMAIN m_cache_key_map : m_cache_key_map[k] # NULL}

\* the number of steps upward from key from to key c, 1 following the
\* greatest key
StepsFrom(from, c) == (c - from) % MaxCacheKey

\* the first key at or after from, going upward and around, that is not in use
FirstUnusedFrom(from) ==
    CHOOSE c \in (1 .. MaxCacheKey) \ InUse :
        \A d \in (1 .. MaxCacheKey) \ InUse :
            StepsFrom(from, c) <= StepsFrom(from, d)

\* C31: provide_cache_key returns 1 when by_cache_key is empty, raises
\* OverflowException when every key is in use, and otherwise returns the
\* first key at or after last_cache_key, going upward and from the greatest
\* key to 1, that is not in use; the key returned is in 1..max and is not the
\* key of a cached object, and last_cache_key is set to it.
C31_ProvideCacheKey ==
    [][ last'.op = "provide_cache_key" =>
          IF InUse = {}
          THEN last'.exc = "none" /\ last'.o = 1 /\ m_last_cache_key' = 1
          ELSE IF InUse = 1 .. MaxCacheKey
          THEN /\ last'.exc = "OverflowException"
               /\ UNCHANGED <<m_cache_key_map, m_last_cache_key>>
          ELSE /\ last'.exc = "none"
               /\ last'.o \in (1 .. MaxCacheKey) \ InUse
               /\ last'.o = FirstUnusedFrom(m_last_cache_key)
               /\ m_last_cache_key' = last'.o
               /\ m_cache_key_map' = [m_cache_key_map EXCEPT
                                        ![last'.o] = last'.o]
      ]_vars

\* key 1 was provided while the greatest key is in use and key 2 is not:
\* the scan started at the greatest key and went on from 1
C31_Witness ==
    /\ last.op = "provide_cache_key" /\ last.exc = "none"
    /\ last.o = 1 /\ m_last_cache_key = 1
    /\ m_cache_key_map[MaxCacheKey] # NULL
    /\ m_cache_key_map[2] = NULL

\* the commands of the call that ran are cs, or as many of them as it took
\* for one to fail
Issued(cs) ==
    IF last'.exc = "none" THEN last'.cmds = cs
    ELSE /\ last'.cmds # <<>>
         /\ Len(last'.cmds) <= Len(cs)
         /\ last'.cmds = SubSeq(cs, 1, Len(last'.cmds))

\* the nesting level went from its value to that plus d when the call
\* succeeded and stayed when the call failed, as it does when a failure of
\* the engine was injected
LevelMoves(d) ==
    /\ last'.inj => last'.exc = "SQLiteException"
    /\ m_transaction_nesting_level' =
         IF last'.exc = "none" THEN m_transaction_nesting_level + d
         ELSE m_transaction_nesting_level

\* C32: begin_transaction issues BEGIN at level 0 and SAVEPOINT sp at a level
\* of 1 or more below the maximum; end_transaction issues the commit at level
\* 1 and RELEASE sp at level 2 or more; cancel_transaction issues ROLLBACK at
\* level 1 and ROLLBACK TO SAVEPOINT sp, then RELEASE sp, at level 2 or more;
\* a call that succeeds moves the level by +1 (begin) or -1 (end, cancel),
\* and when a command fails the level is as before.
C32_TransactionCommands ==
    [][ /\ (last'.op = "begin_transaction"
              /\ m_transaction_nesting_level < s_max_nesting)
            => /\ Issued(IF m_transaction_nesting_level = 0
                         THEN <<"begin">> ELSE <<"savepoint sp">>)
               /\ LevelMoves(1)
        /\ (last'.op = "end_transaction" /\ m_transaction_nesting_level >= 1)
            => /\ Issued(IF m_transaction_nesting_level = 1
                         THEN <<"end">> ELSE <<"release sp">>)
               /\ LevelMoves(-1)
        /\ (last'.op = "cancel_transaction"
              /\ m_transaction_nesting_level >= 1)
            => /\ Issued(IF m_transaction_nesting_level = 1
                         THEN <<"rollback">>
                         ELSE <<"rollback to savepoint sp", "release sp">>)
               /\ LevelMoves(-1)
      ]_vars

\* a cancel_transaction at level 2 rolled back to the savepoint, failed to
\* release it and left the level at 2
C32_Witness ==
    /\ last.op = "cancel_transaction" /\ last.exc = "SQLiteException"
    /\ last.cmds = <<"rollback to savepoint sp", "release sp">>
    /\ m_transaction_nesting_level = 2

\* the state after notify_nil_handles for the object at a, whose counter
\* has been set to 0: the object has left both indexes when it has no id or
\* caching is off, and stays otherwise
NotifiedNil(a) ==
    IF has_id(objects[a]) /\ m_is_caching
    THEN /\ objects' = [objects EXCEPT ![a].m_handle_counter = 0]
         /\ UNCHANGED <<m_cache_key_map, m_id_map>>
    ELSE /\ objects' = [objects EXCEPT ![a] = NoObject]
         /\ m_cache_key_map' =
              [m_cache_key_map EXCEPT ![objects[a].m_cache_key] = NULL]
         /\ m_id_map' = [k \in Ids |-> IF m_id_map[k] = a THEN NULL
                                       ELSE m_id_map[k]]

\* C33: the handle counter does not wrap: increment_handle_counter at the
\* maximum raises OverflowException and leaves the counter; Handle(dbc, id)
\* for an object in by_id whose counter is max-2 or more raises
\* OverflowException, binds no Handle and leaves the counter;
\* decrement_handle_counter at 0 changes nothing; and the identity map is
\* notified of nil handles exactly when the counter goes from 1 to 0.
C33_HandleCounterNeverWraps ==
    [][ \A a \in Addresses :
          /\ (last'.op = "increment_handle_counter" /\ last'.o = a) =>
               IF objects[a].m_handle_counter = HandleCounterMax
               THEN last'.exc = "OverflowException" /\ UNCHANGED mapVars
               ELSE /\ last'.exc = "none"
                    /\ objects' = [objects EXCEPT ![a].m_handle_counter =
                                     objects[a].m_handle_counter + 1]
          /\ (last'.op = "Handle_id" /\ RowPresent(last'.k)
                /\ m_id_map[last'.k] = a
                /\ objects[a].m_handle_counter >= HandleCounterMax - 2) =>
               last'.exc = "OverflowException" /\ UNCHANGED mapVars
          /\ (last'.op \in {"decrement_handle_counter", "~Handle"}
                /\ last'.o = a) =>
               /\ last'.exc = "none"
               /\ IF objects[a].m_handle_counter = 0
                  THEN UNCHANGED <<m_cache_key_map, m_id_map, objects>>
                  ELSE IF objects[a].m_handle_counter = 1
                  THEN NotifiedNil(a)
                  ELSE /\ objects' = [objects EXCEPT ![a].m_handle_counter =
                                        objects[a].m_handle_counter - 1]
                       /\ UNCHANGED <<m_cache_key_map, m_id_map>>
          /\ objects[a].m_handle_counter \in 0 .. HandleCounterMax
      ]_vars

\* an increment was refused at the maximum, and the counter is the maximum
C33_Witness ==
    /\ last.op = "increment_handle_counter"
    /\ last.exc = "OverflowException"
    /\ objects[last.o].m_handle_counter = HandleCounterMax

\* the texts that have a wrapper in the statement cache
CachedTexts == {txt \in Texts : m_statement_cache[txt] # NULL}

\* the statement cache is as it was, but for the wrapper at w stored under
\* txt when the cache differs in size from its capacity
StoredIfRoom(txt, w) ==
    m_statement_cache' =
        IF Cardinality(CachedTexts) # m_cache_capacity
        THEN [m_statement_cache EXCEPT ![txt] = w]
        ELSE m_statement_cache

InsertedKeys == {k \in Ids : db.rows[k] = NoRow /\ db'.rows[k] # NoRow}

\* C35: the key that save() predicts for a new object is the key of the row
\* that do_save_new() inserts: one more than the greatest key recorded as
\* assigned, which no row of the table has, also after rows were deleted and
\* scopes rolled back; deleting a row leaves the record of the greatest key
\* assigned; and when that key is the maximum of the id type save() raises
\* TableSizeException and inserts nothing.
C35_ProspectiveKeyIsAssignedKey ==
    [][ /\ \A k \in Ids : db.rows[k] # NoRow => k <= db.seq
        /\ \A a \in Addresses :
             (last'.op = "save" /\ last'.o = a /\ ~has_id(objects[a])) =>
               IF db.seq = MaxId
               THEN /\ last'.exc = "TableSizeException"
                    /\ last'.cmds = <<>>
                    /\ UNCHANGED <<connVars, mapVars>>
               ELSE IF last'.exc = "none"
               THEN /\ objects'[a].m_id = db.seq + 1
                    /\ InsertedKeys = {objects'[a].m_id}
                    /\ db'.seq = objects'[a].m_id
               ELSE InsertedKeys = {} /\ db'.seq = db.seq
        /\ (last'.op = "remove" /\ last'.exc = "none") => db'.seq = db.seq
      ]_vars

\* a new object was saved under key 2 after the row with key 1 had been
\* deleted: key 1 is not used again
C35_Witness ==
    /\ last.op = "save" /\ last.exc = "none"
    /\ objects[last.o].m_id = 2 /\ db.seq = 2
    /\ RowPresent(2) /\ ~RowPresent(1)

\* C36: load() (called by a getter), save() and remove() leave the
\* connection's nesting level as they found it, and the savepoints with it,
\* when they return and when they throw an exception other than
\* UnresolvedTransactionException, outside and inside scopes of the client.
C36_ObjectOperationsKeepNestingLevel ==
    [][ (/\ last'.op \in {"x", "save", "remove"}
         /\ last'.exc # "UnresolvedTransactionException")
          => /\ m_transaction_nesting_level' = m_transaction_nesting_level
             /\ Len(savepoints') = Len(savepoints)
             /\ pc' = "run"
      ]_vars

\* inside a scope of the client a save() opened a scope of its own, failed
\* in its do_save function and left the nesting level at 1
C36_Witness ==
    /\ last.op = "save" /\ last.exc = "SQLiteException" /\ ~last.inj
    /\ last.cmds # <<>>
    /\ m_transaction_nesting_level = 1
    /\ Len(scopes) = 1

\* C37: whenever load(), save(), remove() or ghostify() has returned or
\* thrown, also when the scope could not be opened, committed or cancelled,
\* the loading status of every object is ghost or loaded, and no load()
\* waits for a status of loading to change.
C37_LoadingOnlyDuringDoLoad ==
    /\ pc # "hung"
    /\ \A a \in Addresses :
         objects[a].alive =>
           objects[a].m_loading_status \in {"ghost", "loaded"}

\* a getter's load() failed in do_load and then in the cancel of its scope:
\* the object is a ghost
C37_Witness ==
    /\ last.op = "x" /\ last.exc = "UnresolvedTransactionException"
    /\ Len(last.cmds) >= 2 /\ last.cmds[2] = "select"
    /\ objects[last.o].alive
    /\ objects[last.o].m_loading_status = "ghost"

\* C38: the connection's nesting level is the number of transaction scopes
\* that are active (constructed and not yet committed, cancelled or
\* destroyed with success), whatever scopes were constructed, committed,
\* cancelled and destroyed and whichever of these calls failed.
C38_LevelIsNumberOfActiveScopes ==
    m_transaction_nesting_level = Cardinality(ActiveScopes)

\* a commit failed on the inner of two scopes: both are active at level 2
C38_Witness ==
    /\ last.op = "commit" /\ last.exc = "UnresolvedTransactionException"
    /\ Len(scopes) = 2
    /\ ActiveScopes = {1, 2}
    /\ m_transaction_nesting_level = 2

\* the counters after a Handle to the object at b was taken and one to the
\* object at a was given up: a's object is dropped when that was its last
\* Handle and it has no id or caching is off
Reassigned(a, b) ==
    [x \in Addresses |->
        IF x = b
        THEN [objects[x] EXCEPT !.m_handle_counter = @ + 1]
        ELSE IF x = a
        THEN IF objects[x].m_handle_counter > 1
                \/ (has_id(objects[x]) /\ m_is_caching)
             THEN [objects[x] EXCEPT !.m_handle_counter = @ - 1]
             ELSE NoObject
        ELSE objects[x]]

\* an index of the map after the reassignment
ReassignedIndex(index, a, b) ==
    [k \in DOMAIN index |->
        IF /\ a # NULL /\ a # b /\ index[k] = a
           /\ objects[a].m_handle_counter = 1
           /\ ~(has_id(objects[a]) /\ m_is_caching)
        THEN NULL
        ELSE index[k]]

C40_NoIdlessOrphanLingers ==
    \A a \in Cached :
        (objects[a].alive /\ is_orphaned(objects[a])) =>
            has_id(objects[a]) /\ m_is_caching

\* commit() or cancel() ran on a scope that was active
ResolveAttempted ==
    /\ last'.op \in {"commit", "cancel"}
    /\ scopes[last'.i].m_is_active

\* C26: when the engine command that commit() or cancel() of an active scope
\* issues fails, the call raises UnresolvedTransactionException, the scope
\* is still active and the connection's nesting level is as before; a later
\* cancel() or the destructor of a scope that is still active issues the
\* engine's command again.
C26_FailedResolveLeavesScopeActive ==
    [][/\ (ResolveAttempted /\ last'.inj) => last'.exc # "none"
       /\ (ResolveAttempted /\ last'.exc # "none") =>
            /\ last'.exc = "UnresolvedTransactionException"
            /\ scopes'[last'.i].m_is_active
            /\ m_transaction_nesting_level' = m_transaction_nesting_level
       /\ (/\ last'.op \in {"cancel", "~DatabaseTransaction"}
           /\ scopes[last'.i].m_is_active
           /\ m_transaction_nesting_level > 0) =>
            /\ last'.cmds # <<>>
            /\ last'.cmds[1] \in {"rollback", "rollback to savepoint sp"}]_vars

\* the cancel() of a nested scope rolled back to the savepoint and failed to
\* release it: the scope is active and the nesting level still 2
C26_Witness ==
    /\ last.op = "cancel"
    /\ last.exc = "UnresolvedTransactionException"
    /\ last.cmds = <<"rollback to savepoint sp", "release sp">>
    /\ scopes[last.i].m_is_active
    /\ m_transaction_nesting_level = 2

\* the statement on which the last operation ran, as it was before
Before == cursors[last'.i]

\* extract was called with an index of a column of the result set
IndexInRange == 0 <= last'.k /\ last'.k < Before.columns

\* C24: extract<T>(i) raises NoResultRow whenever the statement is at no
\* result row, IndexOutOfRange when it is at a row but i is negative or not
\* below the column count, ValueTypeMismatch when the value at i is not of
\* the datatype of T, and returns the value otherwise; a failed extract leaves
\* the statement as it was.
C24_ExtractChecksRowIndexType ==
    [][last'.op = "extract" =>
          /\ cursors' = cursors
          /\ last'.exc =
                IF Before.row = 0 THEN "NoResultRowException"
                ELSE IF ~IndexInRange THEN "ResultIndexOutOfRange"
                ELSE IF Before.rows[Before.row][last'.k + 1].type
                            # last'.value_type
                THEN "ValueTypeException"
                ELSE "none"
          /\ last'.exc = "none" =>
                last'.o = Before.rows[Before.row][last'.k + 1].val]_vars

\* C25: step() returns true at a result row and false when the statement is
\* done, and then the statement is before its first row again, so that the
\* next step() yields the first row; step_final() does as step() except that
\* at a row it resets the statement, keeps the bindings and raises
\* UnexpectedResultRow; when the engine reports an error the statement is
\* reset, its bindings are cleared and SQLiteException is raised.
C25_StepAndStepFinal ==
    [][last'.op \in {"step", "step_final"} =>
          IF last'.exc = "SQLiteException"
          THEN cursors' = [cursors EXCEPT ![last'.i].row = 0,
                                          ![last'.i].bound = FALSE]
          ELSE IF Before.row = Len(Before.rows)
          THEN /\ last'.exc = "none" /\ ~last'.ret
               /\ cursors' = [cursors EXCEPT ![last'.i].row = 0]
          ELSE IF last'.op = "step"
          THEN /\ last'.exc = "none" /\ last'.ret
               /\ cursors' = [cursors EXCEPT ![last'.i].row = @ + 1]
          ELSE /\ last'.exc = "UnexpectedResultRow"
               /\ cursors' = [cursors EXCEPT ![last'.i].row = 0]]_vars

\* step_final() met a row of a statement with a bound parameter: it raised
\* UnexpectedResultRow and left the statement reset and still bound
C25_Witness ==
    /\ last.op = "step_final" /\ last.exc = "UnexpectedResultRow"
    /\ cursors[last.i].row = 0 /\ cursors[last.i].bound
    /\ Len(cursors[last.i].rows) = 2

\* C7: for scopes resolved innermost first, once the outermost scope is
\* resolved a write is in the database if and only if the scope it was made
\* in and every scope enclosing it were committed: cancelling (or destroying
\* unresolved) a scope discards the writes made since it began, also those of
\* inner scopes already committed, and nothing else.
C7_WritePresentIffAllCommitted ==
    (proper /\ m_transaction_nesting_level = 0 /\ ActiveScopes = {}) =>
        \A k \in Ids : RowPresent(k) <=> wstate[k] = "live"

\* an outer scope committed after its inner scope was cancelled: the outer
\* write is kept, the inner one is gone
C7_Witness ==
    /\ proper /\ m_transaction_nesting_level = 0 /\ ActiveScopes = {}
    /\ last.op = "commit" /\ last.exc = "none"
    /\ wstate[1] = "live" /\ wstate[2] = "doomed"
    /\ RowPresent(1) /\ ~RowPresent(2)

CancelCommands == {<<"rollback">>, <<"rollback to savepoint sp", "release sp">>}

\* C8: a scope is active from its successful construction until its first
\* successful commit() or cancel(); a commit() or cancel() on a resolved
\* scope raises TransactionNestingException, issues no engine command and
\* leaves the nesting level alone; destroying an active scope cancels it and
\* destroying a resolved one does nothing.
C8_ScopeResolvedAtMostOnce ==
    [][ /\ \A i \in 1 .. Len(scopes) :
            /\ (last'.op \in {"commit", "cancel"} /\ last'.i = i
                    /\ ~scopes[i].m_is_active)
                => /\ last'.exc = "TransactionNestingException"
                   /\ last'.cmds = <<>>
                   /\ UNCHANGED <<connVars, scopes>>
            /\ (scopes[i].m_is_active /\ i <= Len(scopes')
                    /\ ~scopes'[i].m_is_active)
                => /\ last'.op \in {"commit", "cancel"}
                   /\ last'.i = i /\ last'.exc = "none"
            /\ (~scopes[i].m_is_active /\ i <= Len(scopes'))
                => ~scopes'[i].m_is_active
            /\ (last'.op \in {"commit", "cancel"} /\ last'.i = i)
                => (scopes'[i].m_is_active <=> last'.exc =
                                        "UnresolvedTransactionException")
        /\ (last'.op = "DatabaseTransaction" /\ last'.exc = "none")
            => /\ Len(scopes') = Len(scopes) + 1
               /\ scopes'[Len(scopes')].m_is_active
        /\ (last'.op = "~DatabaseTransaction" /\ scopes # <<>>)
            => IF scopes[Len(scopes)].m_is_active
               THEN /\ last'.exc \in {"none", "terminate"}
                    /\ last'.exc = "none" =>
                        /\ last'.cmds \in CancelCommands
                        /\ m_transaction_nesting_level' =
                               m_transaction_nesting_level - 1
                        /\ db' = savepoints[Len(savepoints)].snap
               ELSE /\ last'.exc = "none" /\ last'.cmds = <<>>
                    /\ UNCHANGED connVars
      ]_vars

\* a second resolution of a scope was attempted and refused
C8_Witness ==
    /\ last.op \in {"commit", "cancel"}
    /\ last.exc = "TransactionNestingException"
    /\ last.i \in 1 .. Len(scopes)
    /\ ~scopes[last.i].m_is_active

\* C9: begin_transaction at the maximum nesting level, and end_transaction
\* or cancel_transaction at level 0, raise TransactionNestingException, issue
\* no engine command and leave the level alone; after a begin refused at the
\* maximum the open transaction can still be cancelled, which takes the level
\* back down by one.
C9_NestingLimits ==
    [][ /\ (last'.op = "begin_transaction"
                /\ m_transaction_nesting_level = s_max_nesting)
            => /\ last'.exc = "TransactionNestingException"
               /\ last'.cmds = <<>>
               /\ UNCHANGED connVars
        /\ (last'.op \in {"end_transaction", "cancel_transaction"}
                /\ m_transaction_nesting_level = 0)
            => /\ last'.exc = "TransactionNestingException"
               /\ last'.cmds = <<>>
               /\ UNCHANGED connVars
        /\ (last.op = "begin_transaction"
                /\ last.exc = "TransactionNestingException"
                /\ last'.op = "cancel_transaction" /\ ~last'.inj)
            => /\ last'.exc = "none"
               /\ m_transaction_nesting_level' = s_max_nesting - 1
      ]_vars

\* a begin was refused at the maximum nesting level
C9_Witness ==
    /\ last.op = "begin_transaction"
    /\ last.exc = "TransactionNestingException"
    /\ m_transaction_nesting_level = s_max_nesting

====
